---- MODULE Spec2Model ----
(***************************************************************************)
(* db-filters: the filter (table definition), the operator nodes and the   *)
(* query builders, modelled from lib/db-filters.js, lib/operator_base.js,  *)
(* lib/conditionals.js, lib/functions.js, lib/operators.js and             *)
(* lib/queries.js.                                                         *)
(*                                                                         *)
(* SQL text is a sequence of tokens [k, s]: s is the text of the token and *)
(* k names the place of the code that produced it (the identifier escaper, *)
(* the literal escaper, a type canonicalizer, fixed text of the library,   *)
(* a value copied verbatim).  Str flattens a token sequence to the string  *)
(* the code returns.                                                       *)
(***************************************************************************)
EXTENDS Integers, Sequences, FiniteSets, TLC

VARIABLES
  q,        \* the query builder: kind, _tables, _limit, values
  built,    \* the text returned by the last buildQuery call (<<>> before any)
  nbuilt,   \* number of buildQuery calls since the last configuration call
  ncalls,   \* number of configuration calls made on the builder (compile:
            \* number of compilations of the node)
  raised,   \* what the last call on the builder threw (<<>>: it returned)
  hlimit,   \* the arguments of the last limit call that returned (<<>>: none)
  hcall,    \* the last configuration call: its name, index (-1: omitted),
            \* arguments, and the builder it was made on (compile: the node
            \* as it was built)
  dfilter,  \* decode: the filter (table definition) decoding is run on
  dparams,  \* decode: the filter map handed to where / set
  dopts,    \* decode: the resolution options
  dout,     \* decode: the text the call returned
  dpc,      \* decode: "idle", "ready" before the call, then "where" or "set"
            \* (compile: "node", then "get" or "getField")
  env,      \* exec: the host (whether process.version selects the stream)
  filters,  \* exec: the filter objects (template and clones): conn, queries
  req,      \* exec: each request: its position, its clone, what it was given
  conns,    \* exec: each connection: the queries submitted to it
  croot,    \* calls: the node whose compilation is followed call by call
  cstack,   \* calls: the calls still to be made, the next one first
  ccalls    \* calls: number of get and getField calls made so far

vars == <<q, built, nbuilt, ncalls, raised, hlimit, hcall, dfilter, dparams, dopts, dout, dpc,
          env, filters, req, conns, croot, cstack, ccalls>>
execvars == <<env, filters, req, conns>>
callvars == <<croot, cstack, ccalls>>

(***************************************************************************)
(* Bounds of the model.                                                    *)
(***************************************************************************)
MaxCalls  == 3     \* configuration calls on one builder
MaxJoins  == 2     \* joins added to one select
MaxBuilds == 2     \* buildQuery calls between two configuration calls

(***************************************************************************)
(* JavaScript values.                                                      *)
(***************************************************************************)
Num(n)  == [t |-> "num", n |-> n]
JStr(s) == [t |-> "str", s |-> s]
Arr(a)  == [t |-> "arr", a |-> a]
Re(src) == [t |-> "re", s |-> src]
Undef   == [t |-> "undef"]

IsOperator(v) == v.t = "op"
IsArray(v)    == v.t = "arr"
IsRegExp(v)   == v.t = "re"

(***************************************************************************)
(* Tokens and text.                                                        *)
(***************************************************************************)
Tok(k, s) == [k |-> k, s |-> s]
Kw(s)     == <<Tok("kw", s)>>

RECURSIVE Str(_)
Str(text) == IF text = <<>> THEN "" ELSE Head(text).s \o Str(Tail(text))

\* A thrown exception is the one-token text <<Tok("throw", message)>>.
Throw(msg)  == <<Tok("throw", msg)>>
Threw(text) == \E i \in DOMAIN text : text[i].k = "throw"
FirstThrow(text) ==
  LET i == CHOOSE j \in DOMAIN text :
             text[j].k = "throw" /\ \A m \in 1..(j-1) : text[m].k # "throw"
  IN  <<text[i]>>

RECURSIVE Flat(_)
Flat(parts) == IF parts = <<>> THEN <<>> ELSE Head(parts) \o Flat(Tail(parts))

\* the exception of the first part that threw
ThrownBy(parts) ==
  FirstThrow(parts[CHOOSE j \in DOMAIN parts :
                     Threw(parts[j]) /\ \A m \in 1..(j-1) : ~Threw(parts[m])])

\* a + b + ... of parts evaluated from left to right: the exception of the
\* first part that throws, else the parts concatenated
Cat(parts) ==
  IF \E i \in DOMAIN parts : Threw(parts[i]) THEN ThrownBy(parts) ELSE Flat(parts)

\* the same for parts that the code evaluates in the order given and
\* concatenates in the order of the positions in order
CatIn(parts, order) ==
  IF \E i \in DOMAIN parts : Threw(parts[i]) THEN ThrownBy(parts)
  ELSE Flat([i \in DOMAIN order |-> parts[order[i]]])

RECURSIVE Join(_, _)
\* Array.prototype.join over texts, the separator given as a text
Join(texts, sep) ==
  IF texts = <<>> THEN <<>>
  ELSE IF Len(texts) = 1 THEN texts[1]
  ELSE texts[1] \o sep \o Join(Tail(texts), sep)

\* texts.join(sep) of texts computed one after the other
JoinOrThrow(texts, sep) ==
  IF \E i \in DOMAIN texts : Threw(texts[i]) THEN ThrownBy(texts) ELSE Join(texts, sep)

\* keyword + text when text is not the empty string, else nothing
Prefixed(keyword, text) ==
  IF Threw(text) THEN text
  ELSE IF Len(Str(text)) > 0 THEN Kw(keyword) \o text
  ELSE <<>>

(***************************************************************************)
(* Column type constants of db and the filters of the test suites.         *)
(***************************************************************************)
int_t       == 1
date_t      == 2
datetime_t  == 3
timestamp_t == 3
varchar_t   == 4
text_t      == 5
char_t      == 6

\* A declared column type is <<type>> or the array <<type, length>>.
special_users == [salt_pw |-> "salt_pw", parent |-> "parent", hidden |-> "hidden"]

users ==
  [table   |-> "users",
   columns |-> [id |-> <<int_t>>, user |-> <<varchar_t, 32>>,
                password |-> <<varchar_t, 32>>, registered |-> <<datetime_t>>,
                salt |-> <<varchar_t, 8>>, status |-> <<int_t>>,
                post_count |-> <<int_t>>],
   special |-> special_users]

posts ==
  [table   |-> "posts",
   columns |-> [id |-> <<int_t>>, userId |-> <<int_t>>, threadId |-> <<int_t>>,
                posted |-> <<datetime_t>>, content |-> <<text_t>>],
   special |-> << >>]

\* a property that no code assigns reads as undefined
IsUndefined(v) == DOMAIN v = {"t"} /\ v.t = "undef"

\* the constructor: columns || {} and special || {}
db(table, columns, special) ==
  [table   |-> table,
   columns |-> IF IsUndefined(columns) THEN << >> ELSE columns,
   special |-> IF IsUndefined(special) THEN << >> ELSE special]

\* this.cols: the constructor stores the declarations as this.columns, and
\* nothing assigns a property cols
this_cols(filter) == [t |-> "undef"]

clone(filter) == db(filter.table, this_cols(filter), filter.special)

\* this.columns[col]: <<>> stands for undefined (an operator or undefined used
\* as a property name names no declared column)
ColumnType(filter, col) ==
  IF col.t = "str" /\ col.s \in DOMAIN filter.columns
    THEN filter.columns[col.s] ELSE <<>>

(***************************************************************************)
(* String conversions of JavaScript and of the mysql escaper.              *)
(***************************************************************************)
\* value + ''
RECURSIVE ToJsString(_)
ToJsString(v) ==
  CASE v.t = "num"   -> ToString(v.n)
    [] v.t = "str"   -> v.s
    [] v.t = "undef" -> "undefined"
    [] v.t = "re"    -> "/" \o v.s \o "/"
    [] v.t = "arr"   ->
         IF v.a = <<>> THEN ""
         ELSE IF Len(v.a) = 1 THEN ToJsString(v.a[1])
         ELSE ToJsString(v.a[1]) \o "," \o ToJsString(Arr(Tail(v.a)))
    [] OTHER         -> "[object Object]"

\* String.prototype.substring(0, n), on the strings of the model
Substring0(s, n) == IF Len(s) <= n THEN s ELSE SubSeq(s, 1, n)

\* the characters mysql.escape protects inside a string literal: each quote
\* and backslash gets a backslash before it
\* a quote or a backslash gets a backslash before it
EscapeChar(c) == IF c \in {"'", "\"", "\\"} THEN "\\" \o c ELSE c

RECURSIVE EscapeChars(_)
\* every character escaped, the string taken by halves
EscapeChars(s) ==
  IF Len(s) = 0 THEN ""
  ELSE IF Len(s) = 1 THEN EscapeChar(s)
  ELSE EscapeChars(SubSeq(s, 1, Len(s) \div 2)) \o EscapeChars(SubSeq(s, Len(s) \div 2 + 1, Len(s)))

RECURSIVE mysql_escape_str(_)
mysql_escape_str(v) ==
  CASE v.t = "num"   -> ToString(v.n)
    [] v.t = "str"   -> "'" \o EscapeChars(v.s) \o "'"
    [] v.t = "undef" -> "NULL"
    [] v.t = "arr"   ->
         IF v.a = <<>> THEN ""
         ELSE IF Len(v.a) = 1 THEN mysql_escape_str(v.a[1])
         ELSE mysql_escape_str(v.a[1]) \o ", " \o mysql_escape_str(Arr(Tail(v.a)))
    [] OTHER         -> "'" \o ToJsString(v) \o "'"

\* mysql.escape(value)
mysql_escape(v) == <<Tok("lit", mysql_escape_str(v))>>

\* The backquote of mysql.escapeId: a TLA+ string cannot hold that character,
\* so the model writes it as ~ (no other text of the model holds a ~).
BQ == "~"

\* mysql.escapeId(name), as a string
mysql_escapeId(name) == BQ \o name \o BQ

IsDigit(c) == c \in {"0", "1", "2", "3", "4", "5", "6", "7", "8", "9"}

\* the count of leading characters of a string of length n, given the
\* positions of its characters of another kind
PrefixLen(others, n) ==
  IF others = {} THEN n ELSE (CHOOSE i \in others : \A j \in others : i <= j) - 1

CharsNotIn(s, chars) == {i \in 1..Len(s) : SubSeq(s, i, i) \notin chars}

SkipPrefix(s, n) == SubSeq(s, n + 1, Len(s))

\* the string after its leading white space
TrimLeft(s) == SkipPrefix(s, PrefixLen(CharsNotIn(s, {" ", "\t", "\n", "\r"}), Len(s)))

\* the longest prefix of decimal digits
LeadingDigits(s) == SubSeq(s, 1, PrefixLen({i \in 1..Len(s) : ~IsDigit(SubSeq(s, i, i))}, Len(s)))

\* a numeral without its leading zeros
StripZeros(d) ==
  IF Len(d) > 0 /\ CharsNotIn(d, {"0"}) = {} THEN "0"
  ELSE SkipPrefix(d, PrefixLen(CharsNotIn(d, {"0"}), Len(d)))

\* the largest count of digits of an integer that a Number holds exactly
\* whatever its digits, and the count from which every numeral is beyond the
\* largest Number (1.79e308) and parses to Infinity
ExactDigits    == 15
InfinityDigits == 310

\* parseInt(s) of a string, as the text that the Number it returns gives when
\* it is concatenated: "NaN" without a leading numeral, the numeral while
\* the Number holds it exactly, "Infinity" beyond the largest Number.  A 0x
\* prefix (a hexadecimal numeral) and the numerals in between, which parse to
\* a rounded Number, are left as "Number(...)".
ParseIntDigits(sign, d, rest) ==
  IF Len(d) = 0 THEN "NaN"
  ELSE IF d = "0" /\ Len(rest) > 0 /\ SubSeq(rest, 1, 1) \in {"x", "X"}
    THEN "Number(" \o sign \o d \o rest \o ")"
  ELSE IF Len(StripZeros(d)) >= InfinityDigits THEN sign \o "Infinity"
  ELSE IF Len(StripZeros(d)) > ExactDigits THEN "Number(" \o sign \o d \o ")"
  ELSE IF StripZeros(d) = "0" THEN sign \o "0"
  ELSE sign \o StripZeros(d)

ParseIntSigned(sign, s) ==
  ParseIntDigits(sign, LeadingDigits(s), SubSeq(s, Len(LeadingDigits(s)) + 1, Len(s)))

ParseIntTrimmed(s) ==
  IF Len(s) > 0 /\ SubSeq(s, 1, 1) = "-" THEN ParseIntSigned("-", SubSeq(s, 2, Len(s)))
  ELSE IF Len(s) > 0 /\ SubSeq(s, 1, 1) = "+" THEN ParseIntSigned("", SubSeq(s, 2, Len(s)))
  ELSE ParseIntSigned("", s)

parseInt(s) == ParseIntTrimmed(TrimLeft(s))

\* n || 0 of the Number that gives the text n: NaN, 0 and -0 are falsy
OrZero(n) == IF n \in {"NaN", "0", "-0"} THEN "0" ELSE n

\* parseInt(value) || 0, as the text it gives; an integer of the model is its
\* own parse
ParseIntOr0(v) ==
  IF v.t = "num" THEN ToString(v.n) ELSE OrZero(parseInt(ToJsString(v)))

(***************************************************************************)
(* Dates.  A Date object is [t |-> "date", valid, y, mo, d, h, mi, sec],   *)
(* mo being the month index getMonth returns.                              *)
(***************************************************************************)
InvalidDate == [t |-> "date", valid |-> FALSE]
DateObj(y, mo, d, h, mi, sec) ==
  [t |-> "date", valid |-> TRUE, y |-> y, mo |-> mo, d |-> d,
   h |-> h, mi |-> mi, sec |-> sec]

\* new Date(value), on the values of the model, in local time
NewDate(v) ==
  IF v.t = "str" /\ v.s = "2013-02-03 04:05:06"
    THEN DateObj(2013, 1, 3, 4, 5, 6)
    ELSE InvalidDate

NumOrNaN(valid, n) == IF valid THEN ToString(n) ELSE "NaN"

\* date == 'TOKEN' for a scalar date
LooseEqStr(v, s) == v.t = "str" /\ v.s = s

handle_date(date) ==
  IF LooseEqStr(date, "CURDATE()") \/ LooseEqStr(date, "CURRENT_DATE()")
    THEN <<Tok("verbatim", date.s)>>
    ELSE LET d == IF date.t = "date" THEN date ELSE NewDate(date)
         IN  <<Tok("canon",
                   NumOrNaN(d.valid, IF d.valid THEN d.y ELSE 0) \o "-" \o
                   NumOrNaN(d.valid, IF d.valid THEN d.mo + 1 ELSE 0) \o "-" \o
                   NumOrNaN(d.valid, IF d.valid THEN d.d ELSE 0))>>

handle_datetime(date) ==
  IF LooseEqStr(date, "NOW()")
    THEN <<Tok("verbatim", date.s)>>
    ELSE LET d == IF date.t = "date" THEN date ELSE NewDate(date)
         IN  <<Tok("canon",
                   Str(handle_date(d)) \o " " \o
                   NumOrNaN(d.valid, IF d.valid THEN d.h ELSE 0) \o ":" \o
                   NumOrNaN(d.valid, IF d.valid THEN d.mi ELSE 0) \o ":" \o
                   NumOrNaN(d.valid, IF d.valid THEN d.sec ELSE 0))>>

\* a handle_type that trusts the strings of text columns
handle_type_trusting(filter, col, value) ==
  LET ht == ColumnType(filter, col) IN
  IF ht # <<>> /\ Len(ht) = 1 /\ ht[1] = int_t
    THEN <<Tok("canon", ParseIntOr0(value))>>
  ELSE IF ht # <<>> /\ Len(ht) = 1 /\ ht[1] = date_t
    THEN handle_date(value)
  ELSE IF ht # <<>> /\ Len(ht) = 1 /\ (ht[1] = datetime_t \/ ht[1] = timestamp_t)
    THEN handle_datetime(value)
  ELSE IF ht # <<>> /\ Len(ht) = 2 /\ (ht[1] = varchar_t \/ ht[1] = char_t)
    THEN <<Tok("verbatim", Substring0(ToJsString(value), ht[2]))>>
  ELSE mysql_escape(value)

handle_type(filter, col, value) ==
  LET ht == ColumnType(filter, col) IN
  IF ht # <<>> /\ Len(ht) = 1 /\ ht[1] = int_t
    THEN <<Tok("canon", ParseIntOr0(value))>>
  ELSE IF ht # <<>> /\ Len(ht) = 1 /\ ht[1] = date_t
    THEN handle_date(value)
  ELSE IF ht # <<>> /\ Len(ht) = 1 /\ (ht[1] = datetime_t \/ ht[1] = timestamp_t)
    THEN handle_datetime(value)
  ELSE IF ht # <<>> /\ Len(ht) = 2 /\ (ht[1] = varchar_t \/ ht[1] = char_t)
    THEN mysql_escape(JStr(Substring0(ToJsString(value), ht[2])))
  ELSE mysql_escape(value)


(***************************************************************************)
(* Operator nodes: a node is a record with t = "op", its class cls and the *)
(* fields its constructor sets.                                            *)
(***************************************************************************)
BinaryCondition(name, fn, value, rval) ==
  [t |-> "op", cls |-> "BinaryCondition", name |-> name, require_group |-> FALSE,
   fn |-> fn, value |-> value, rval |-> rval]

BinaryConditionFree(name, fn, lval, rval) ==
  [t |-> "op", cls |-> "BinaryConditionFree", name |-> name, require_group |-> FALSE,
   fn |-> fn, lval |-> lval, rval |-> rval]

ArrayCondition(name, rval, inv, lval) ==
  [t |-> "op", cls |-> "ArrayCondition", name |-> name, require_group |-> FALSE,
   rval |-> rval, lval |-> lval, invert |-> inv]

\* a RegExp pattern is turned to a string and loses its first and last character
RegexCondition(name, pattern, inv) ==
  [t |-> "op", cls |-> "RegexCondition", name |-> name, require_group |-> FALSE,
   pattern |-> IF IsRegExp(pattern) THEN JStr(pattern.s) ELSE pattern,
   invert |-> inv]

LikeCondition(name, pattern, inv) ==
  [t |-> "op", cls |-> "LikeCondition", name |-> name, require_group |-> FALSE,
   pattern |-> pattern, invert |-> inv]

NullaryFunction(name, fn) ==
  [t |-> "op", cls |-> "NullaryFunction", name |-> name, require_group |-> FALSE,
   fn |-> fn]

UnaryFunction(name, fn, val) ==
  [t |-> "op", cls |-> "UnaryFunction", name |-> name, require_group |-> FALSE,
   fn |-> fn, value |-> val]

BinaryFunction(name, fn, field, val, order) ==
  [t |-> "op", cls |-> "BinaryFunction", name |-> name, require_group |-> FALSE,
   fn |-> fn, field |-> field, value |-> val, order |-> order]

BinaryInfixOperator(name, fn, field, val) ==
  [t |-> "op", cls |-> "BinaryInfixOperator", name |-> name, require_group |-> TRUE,
   fn |-> fn, field |-> field, value |-> val]

RawFunction(str) ==
  [t |-> "op", cls |-> "RawFunction", name |-> "$raw", require_group |-> FALSE,
   str |-> str]

FieldFunction(field) ==
  [t |-> "op", cls |-> "FieldFunction", name |-> "$field", require_group |-> FALSE,
   field |-> field]

\* Operator.call(fn) sets no name on the node
OrderFunction(name, fn, field) ==
  [t |-> "op", cls |-> "OrderFunction", require_group |-> FALSE,
   fn |-> fn, field |-> field]

\* instanceof op.Conditional, instanceof op.RawFunction
IsConditional(v) ==
  IsOperator(v) /\ v.cls \in {"BinaryCondition", "BinaryConditionFree",
                              "ArrayCondition", "RegexCondition", "LikeCondition"}
IsRawFunction(v) == IsOperator(v) /\ v.cls = "RawFunction"

\* the factories db exposes
op_eq(val)          == BinaryCondition("$eq", "=", val, Undef)
op_eq2args(val, r)  == BinaryCondition("$eq", "=", val, r)
op_neq(val)         == BinaryCondition("$neq", "!=", val, Undef)
op_gt(val)          == BinaryCondition("$gt", ">", val, Undef)
op_gt2args(val, r)  == BinaryCondition("$gt", ">", val, r)
op_gt2(lval, rval)  == BinaryConditionFree("$gt2", ">", lval, rval)
op_in(v)            == ArrayCondition("$in", Undef, FALSE, v)
op_in2args(v, rval) == ArrayCondition("$in", rval, FALSE, v)
op_not_in(v)        == ArrayCondition("$not_in", Undef, TRUE, v)
op_regex(pattern)     == RegexCondition("$regex", pattern, FALSE)
op_not_regex(pattern) == RegexCondition("$not_regex", pattern, TRUE)
op_like(pattern)      == LikeCondition("$like", pattern, FALSE)
op_not_like(pattern)  == LikeCondition("$not_like", pattern, TRUE)
op_now              == NullaryFunction("$now", "NOW")
op_count(val)       == UnaryFunction("$count", "COUNT", val)
op_length(val)      == UnaryFunction("$length", "LENGTH", val)
op_md5(val)         == UnaryFunction("$md5", "MD5", val)
op_acos(val)        == UnaryFunction("$acos", "ACOS", val)
op_left(a1, a2)     == BinaryFunction("$left", "LEFT", a1, a2, 0)
op_concat(a1, a2)   == BinaryFunction("$concat", "CONCAT", a1, a2, 0)
op_pow1(a1)         == BinaryFunction("$pow", "POW", Undef, a1, 0)
op_atan2(a1, a2)    == BinaryFunction("$atan2", "ATAN2", a1, a2, 0)
op_add1(a1)         == BinaryInfixOperator("$add", "+", Undef, a1)
op_add(a1, a2)      == BinaryInfixOperator("$add", "+", a1, a2)
op_mult(a1, a2)     == BinaryInfixOperator("$mult", "*", a1, a2)
op_raw(str)         == RawFunction(str)
op_field(f)         == FieldFunction(f)
op_asc(field)       == OrderFunction("$asc", "ASC", field)
op_desc(field)      == OrderFunction("$desc", "DESC", field)

(***************************************************************************)
(* Compilation: escapeKey of the filter, eval/get/getField of the nodes.   *)
(***************************************************************************)
RECURSIVE get(_, _, _, _), getField(_, _, _), escapeKey(_, _, _), eval(_, _, _, _, _)

\* the prefix rtn of escapeKey
KeyPrefix(filter, options) ==
  IF options.useName
    THEN IF Len(options.alias) > 0
           THEN <<Tok("qual", mysql_escapeId(options.alias) \o ".")>>
           ELSE <<Tok("qual", mysql_escapeId(filter.table) \o ".")>>
    ELSE <<>>

escapeKey(filter, key, options) ==
  IF IsOperator(key) THEN getField(key, filter, options)
  ELSE IF key.t = "str" /\ key.s = "*"
    THEN KeyPrefix(filter, options) \o <<Tok("star", "*")>>
  ELSE IF key.t = "str"
    THEN KeyPrefix(filter, options) \o <<Tok("col", mysql_escapeId(key.s))>>
  ELSE Throw("TypeError")

\* an eval that types a scalar by the column the node refers to
eval_by_field(node, value, key, filter, options) ==
  IF IsOperator(value)
    THEN IF node.require_group
           THEN Cat(<<Kw("("), get(value, key, filter, options), Kw(")")>>)
           ELSE get(value, key, filter, options)
    ELSE handle_type(filter,
                     IF "field" \in DOMAIN node /\ node.field # Undef /\ ~IsOperator(node.field)
                       THEN node.field ELSE key,
                     value)

eval(node, value, key, filter, options) ==
  IF IsOperator(value)
    THEN IF node.require_group
           THEN Cat(<<Kw("("), get(value, key, filter, options), Kw(")")>>)
           ELSE get(value, key, filter, options)
    ELSE handle_type(filter, key, value)

\* an abstract-method error that does not say which method was called
abstract_unnamed  == Throw("Call to abstract method")

abstract_get      == Throw("Call to abstract method db-filters.Operator.get()")
abstract_getField == Throw("Call to abstract method db-filters.Operator.getField()")

NotText(node) == IF node.invert THEN Kw(" NOT") ELSE <<>>

BinaryCondition_get(node, key, filter, options) ==
  IF node.rval = Undef
    THEN Cat(<<escapeKey(filter, key, options), Kw(" " \o node.fn \o " "),
               eval(node, node.value, key, filter, options)>>)
    ELSE Cat(<<eval(node, node.value, key, filter, options), Kw(" " \o node.fn \o " "),
               eval(node, node.rval, key, filter, options)>>)

\* a two-operand comparison that takes the context column for its lvalue
BinaryConditionFree_keyed(node, key, filter, options) ==
  Cat(<<escapeKey(filter, key, options), Kw(" " \o node.fn \o " "),
        eval(node, node.rval, key, filter, options)>>)

BinaryConditionFree_get(node, key, filter, options) ==
  Cat(<<eval(node, node.lval, key, filter, options), Kw(" " \o node.fn \o " "),
        eval(node, node.rval, key, filter, options)>>)

\* an array condition that never writes NOT
ArrayCondition_positive(node, key, filter, options) ==
  LET list == IF node.rval = Undef THEN node.lval ELSE node.rval
  IN  CatIn(<<IF node.rval = Undef
                THEN escapeKey(filter, key, options)
              ELSE eval(node, node.lval, key, filter, options),
            IF ~IsArray(list) THEN Throw("TypeError")
            ELSE JoinOrThrow([i \in 1..Len(list.a) |->
                                eval(node, list.a[i], key, filter, options)],
                             Kw(", ")),
            Kw(" IN ("), Kw(")")>>,
          <<1, 3, 2, 4>>)

ArrayCondition_get(node, key, filter, options) ==
  LET list == IF node.rval = Undef THEN node.lval ELSE node.rval
  IN  CatIn(<<IF node.rval = Undef
                THEN escapeKey(filter, key, options)
              ELSE eval(node, node.lval, key, filter, options),
            IF ~IsArray(list) THEN Throw("TypeError")
            ELSE JoinOrThrow([i \in 1..Len(list.a) |->
                                eval(node, list.a[i], key, filter, options)],
                             Kw(", ")),
            NotText(node), Kw(" IN ("), Kw(")")>>,
          <<1, 3, 4, 2, 5>>)

RegexCondition_get(node, key, filter, options) ==
  Cat(<<escapeKey(filter, key, options), NotText(node), Kw(" REGEXP "),
        mysql_escape(node.pattern)>>)

LikeCondition_get(node, key, filter, options) ==
  Cat(<<escapeKey(filter, key, options), NotText(node), Kw(" LIKE "),
        mysql_escape(node.pattern)>>)

NullaryFunction_get(node) == Kw(node.fn \o "()")

UnaryFunction_get(node, key, filter, options) ==
  Cat(<<Kw(node.fn \o "("),
        IF node.value = Undef
          THEN escapeKey(filter, key, options)
          ELSE eval(node, node.value, key, filter, options),
        Kw(")")>>)

\* a getField that takes its argument for a value, as get does
UnaryFunction_getField_value(node, filter, options) ==
  Cat(<<Kw(node.fn \o "("), mysql_escape(node.value), Kw(")")>>)

UnaryFunction_getField(node, filter, options) ==
  Cat(<<Kw(node.fn \o "("), escapeKey(filter, node.value, options), Kw(")")>>)

\* a binary function that writes its value first whatever its order
BinaryFunction_get_value_first(node, key, filter, options) ==
  CatIn(<<eval(node, node.value, key, filter, options),
          escapeKey(filter, IF node.field = Undef THEN key ELSE node.field, options),
          Kw(node.fn \o "("), Kw(", "), Kw(")")>>,
        <<3, 1, 4, 2, 5>>)

\* value is computed before field
BinaryFunction_get(node, key, filter, options) ==
  CatIn(<<eval(node, node.value, key, filter, options),
          escapeKey(filter, IF node.field = Undef THEN key ELSE node.field, options),
          Kw(node.fn \o "("), Kw(", "), Kw(")")>>,
        IF node.order = 0 THEN <<3, 2, 4, 1, 5>> ELSE <<3, 1, 4, 2, 5>>)

BinaryInfixOperator_get(node, key, filter, options) ==
  CatIn(<<eval(node, node.value, key, filter, options),
          escapeKey(filter, IF node.field = Undef THEN key ELSE node.field, options),
          Kw(" " \o node.fn \o " ")>>,
        <<2, 3, 1>>)

RawFunction_get(node) == <<Tok("verbatim", node.str)>>

FieldFunction_get(node, key, filter, options) ==
  escapeKey(filter, IF node.field = Undef THEN key ELSE node.field, options)

OrderFunction_getField(node, filter, options) ==
  Cat(<<escapeKey(filter, node.field, options), Kw(" " \o node.fn)>>)

\* node.get(key, filter, options), by the class of the node
get(node, key, filter, options) ==
  CASE node.cls = "BinaryCondition"     -> BinaryCondition_get(node, key, filter, options)
    [] node.cls = "BinaryConditionFree" -> BinaryConditionFree_get(node, key, filter, options)
    [] node.cls = "ArrayCondition"      -> ArrayCondition_get(node, key, filter, options)
    [] node.cls = "RegexCondition"      -> RegexCondition_get(node, key, filter, options)
    [] node.cls = "LikeCondition"       -> LikeCondition_get(node, key, filter, options)
    [] node.cls = "NullaryFunction"     -> NullaryFunction_get(node)
    [] node.cls = "UnaryFunction"       -> UnaryFunction_get(node, key, filter, options)
    [] node.cls = "BinaryFunction"      -> BinaryFunction_get(node, key, filter, options)
    [] node.cls = "BinaryInfixOperator" -> BinaryInfixOperator_get(node, key, filter, options)
    [] node.cls = "RawFunction"         -> RawFunction_get(node)
    [] node.cls = "FieldFunction"       -> FieldFunction_get(node, key, filter, options)
    [] OTHER                            -> abstract_get

\* node.getField(filter, options), by the class of the node
getField(node, filter, options) ==
  CASE node.cls = "NullaryFunction"     -> NullaryFunction_get(node)
    [] node.cls = "UnaryFunction"       -> UnaryFunction_getField(node, filter, options)
    [] node.cls = "BinaryFunction"      -> BinaryFunction_get(node, node.field, filter, options)
    [] node.cls = "BinaryInfixOperator" -> BinaryInfixOperator_get(node, node.field, filter, options)
    [] node.cls = "RawFunction"         -> RawFunction_get(node)
    [] node.cls = "FieldFunction"       -> FieldFunction_get(node, node.field, filter, options)
    [] node.cls = "OrderFunction"       -> OrderFunction_getField(node, filter, options)
    [] OTHER                            -> abstract_getField


(***************************************************************************)
(* The clause decoder.  A filter map is the sequence of its <<key, value>> *)
(* pairs in insertion order, no key twice.                                 *)
(***************************************************************************)
\* the array index a property name denotes, -1 when it denotes none
ArrayIndexOf(k) ==
  CASE k = "0" -> 0 [] k = "1" -> 1 [] k = "2" -> 2 [] k = "7" -> 7
    [] OTHER -> -1

RECURSIVE SortByIndex(_, _)
SortByIndex(params, left) ==
  IF left = {} THEN <<>>
  ELSE LET i == CHOOSE j \in left :
                  \A m \in left : ArrayIndexOf(params[j][1]) <= ArrayIndexOf(params[m][1])
       IN  <<params[i]>> \o SortByIndex(params, left \ {i})

RECURSIVE SelectSeqNamed(_)
SelectSeqNamed(params) ==
  IF params = <<>> THEN <<>>
  ELSE IF ArrayIndexOf(Head(params)[1]) < 0
    THEN <<Head(params)>> \o SelectSeqNamed(Tail(params))
    ELSE SelectSeqNamed(Tail(params))

\* the order in which _.each visits the properties of an object: the
\* array-index names in ascending numeric order, then the others as inserted
EachOrder(params) ==
  SortByIndex(params, {i \in DOMAIN params : ArrayIndexOf(params[i][1]) >= 0})
    \o SelectSeqNamed(params)

\* the function members every object inherits: this.special[key] finds them
\* under their names although no handler was registered
ObjectPrototype ==
  {"constructor", "toString", "toLocaleString", "valueOf", "hasOwnProperty",
   "isPrototypeOf", "propertyIsEnumerable"}

\* this.special[key]: the name of the function found, "" for undefined
special_lookup(filter, key) ==
  IF key \in DOMAIN filter.special THEN filter.special[key]
  ELSE IF key \in ObjectPrototype THEN "Object.prototype." \o key
  ELSE ""

\* the special handlers of the users filter: salt_pw of the test suites, and
\* the two shapes the README describes, a handler that expands one key into
\* two columns and a handler that emits nothing; the inherited functions
\* leave terms alone
special_call(filter, handler, key, value, options) ==
  CASE handler = "salt_pw" ->
         <<get(op_eq(op_md5(op_concat(op_field(JStr("salt")), value))),
               JStr("password"), filter, options)>>
    [] handler = "parent" ->
         <<get(op_eq(value), JStr("parentId"), filter, options),
           get(op_eq(JStr("user")), JStr("parentType"), filter, options)>>
    [] OTHER -> <<>>

\* a process that adds the default term of a special key after its handler
process_both(filter, terms, options, value, key) ==
  LET own == IF special_lookup(filter, key) # ""
               THEN special_call(filter, special_lookup(filter, key), key, value, options)
               ELSE <<>>
      wrapped ==
        IF ~IsConditional(value) /\ ~IsRawFunction(value)
          THEN IF IsArray(value) THEN op_in(value)
               ELSE IF IsRegExp(value) THEN op_regex(value)
               ELSE op_eq(value)
          ELSE value
  IN  Append(terms \o own, get(wrapped, JStr(key), filter, options))

\* a process that compares every plain value with =
process_eq_only(filter, terms, options, value, key) ==
  IF special_lookup(filter, key) # ""
    THEN terms \o special_call(filter, special_lookup(filter, key), key, value, options)
    ELSE LET wrapped ==
               IF ~IsConditional(value) /\ ~IsRawFunction(value)
                 THEN op_eq(value) ELSE value
         IN  Append(terms, get(wrapped, JStr(key), filter, options))

\* a process that takes every operator node for a condition
process_bare(filter, terms, options, value, key) ==
  IF special_lookup(filter, key) # ""
    THEN terms \o special_call(filter, special_lookup(filter, key), key, value, options)
    ELSE LET wrapped ==
               IF ~IsOperator(value)
                 THEN IF IsArray(value) THEN op_in(value)
                      ELSE IF IsRegExp(value) THEN op_regex(value)
                      ELSE op_eq(value)
                 ELSE value
         IN  Append(terms, get(wrapped, JStr(key), filter, options))

\* terms after process(terms, options, value, key)
process(filter, terms, options, value, key) ==
  IF special_lookup(filter, key) # ""
    THEN terms \o special_call(filter, special_lookup(filter, key), key, value, options)
    ELSE LET wrapped ==
               IF ~IsConditional(value) /\ ~IsRawFunction(value)
                 THEN IF IsArray(value) THEN op_in(value)
                      ELSE IF IsRegExp(value) THEN op_regex(value)
                      ELSE op_eq(value)
                 ELSE value
         IN  Append(terms, get(wrapped, JStr(key), filter, options))

RECURSIVE EachProcess(_, _, _, _)
EachProcess(filter, terms, options, pairs) ==
  IF pairs = <<>> THEN terms
  ELSE EachProcess(filter,
                   process(filter, terms, options, Head(pairs)[2], Head(pairs)[1]),
                   options, Tail(pairs))

\* the terms array of decode_filter before it is joined
decode_terms(filter, params, options) ==
  EachProcess(filter, <<>>, options, EachOrder(params))

decode_filter(filter, params, sep, options) ==
  JoinOrThrow(decode_terms(filter, params, options), <<Tok("sep", sep)>>)

\* db.prototype.where
filter_where(filter, where, options) ==
  Prefixed(" WHERE ", decode_filter(filter, where, " AND ", options))

\* the options {} that set passes to decode_filter
EmptyOptions == [useName |-> FALSE, alias |-> ""]

\* db.prototype.set
filter_set(filter, values) ==
  Prefixed(" SET ", decode_filter(filter, values, ", ", EmptyOptions))


(***************************************************************************)
(* The query builders.  A builder is [kind, tables, limit, values]; tables *)
(* holds the TableInfo records, the primary table first (index 0 of the    *)
(* code is position 1 here).                                               *)
(***************************************************************************)
TableInfo(filter, options, joinType) ==
  [filter |-> filter, options |-> options, type |-> joinType,
   on |-> <<>>, fields |-> <<>>, where |-> <<>>, order |-> <<>>, group |-> <<>>]

Query(kind, filter) ==
  [kind |-> kind,
   tables |-> <<TableInfo(filter, [useName |-> FALSE, alias |-> ""], "")>>,
   limit |-> <<>>, values |-> <<>>]

\* where || {} and alias || '' with <<>> and "" standing for an omitted argument
DeleteQuery(filter, where) ==
  [Query("delete", filter) EXCEPT !.tables[1].where = where]
InsertQuery(filter, values) ==
  [Query("insert", filter) EXCEPT !.values = values]
UpdateQuery(filter, values, where) ==
  [Query("update", filter) EXCEPT !.values = values, !.tables[1].where = where]
SelectQuery(filter, where, alias) ==
  [Query("select", filter) EXCEPT !.tables[1].where = where,
                                  !.tables[1].options.alias = alias]

\* the outcome of a configuration call: the builder after it and what it threw
Ok(b)        == [q |-> b, raised |-> <<>>]
Raise(b, ex) == [q |-> b, raised |-> ex]

\* not_supported reads db, which lib/queries.js never defines
not_supported(b) == Raise(b, Throw("ReferenceError: db is not defined"))

\* this._tables[idx] of a call with an optional leading index (-1: omitted)
TableAt(b, idx, default) == IF idx < 0 THEN default ELSE idx + 1

\* arguments of group and order: an array argument is pushed element by element
RECURSIVE Flattened(_)
Flattened(args) ==
  IF args = <<>> THEN <<>>
  ELSE (IF IsArray(Head(args)) THEN Head(args).a ELSE <<Head(args)>>)
         \o Flattened(Tail(args))

\* a limit that keeps the limit of an earlier call
Query_limit_keepfirst(b, lim) ==
  IF b.kind = "insert" THEN not_supported(b)
  ELSE IF Len(b.limit) > 0 THEN Ok(b)
  ELSE Ok([b EXCEPT !.limit = IF Len(lim) = 2 THEN lim ELSE <<lim[1]>>])

Query_limit(b, lim) ==
  IF b.kind = "insert" THEN not_supported(b)
  ELSE Ok([b EXCEPT !.limit = IF Len(lim) = 2 THEN lim
                               ELSE IF Len(lim) = 0 THEN <<Undef>>
                               ELSE <<lim[1]>>])

\* a where that adds its pairs to the filter map the table has
Query_where_merge(b, idx, w) ==
  IF b.kind = "insert" THEN not_supported(b)
  ELSE IF b.kind # "select" THEN Ok([b EXCEPT !.tables[1].where = @ \o w])
  ELSE LET i == TableAt(b, idx, 1)
       IN  IF i > Len(b.tables) THEN Raise(b, Throw("TypeError"))
           ELSE Ok([b EXCEPT !.tables[i].where = @ \o w])

Query_where(b, idx, w) ==
  IF b.kind = "insert" THEN not_supported(b)
  ELSE IF b.kind # "select" THEN Ok([b EXCEPT !.tables[1].where = w])
  ELSE LET i == TableAt(b, idx, 1)
       IN  IF i > Len(b.tables) THEN Raise(b, Throw("TypeError"))
           ELSE Ok([b EXCEPT !.tables[i].where = w])

SelectQuery_group(b, idx, args) ==
  IF b.kind # "select" THEN not_supported(b)
  ELSE LET i == TableAt(b, idx, 1)
       IN  IF args = <<>> THEN Ok(b)
           ELSE IF i > Len(b.tables) THEN Raise(b, Throw("TypeError"))
           ELSE Ok([b EXCEPT !.tables[i].group = @ \o Flattened(args)])

\* an order that puts the new entries ahead of the earlier ones
SelectQuery_order_front(b, idx, args) ==
  IF b.kind # "select" THEN not_supported(b)
  ELSE LET i == TableAt(b, idx, 1)
       IN  IF args = <<>> THEN Ok(b)
           ELSE IF i > Len(b.tables) THEN Raise(b, Throw("TypeError"))
           ELSE Ok([b EXCEPT !.tables[i].order = Flattened(args) \o @])

SelectQuery_order(b, idx, args) ==
  IF b.kind # "select" THEN not_supported(b)
  ELSE LET i == TableAt(b, idx, 1)
       IN  IF args = <<>> THEN Ok(b)
           ELSE IF i > Len(b.tables) THEN Raise(b, Throw("TypeError"))
           ELSE Ok([b EXCEPT !.tables[i].order = @ \o Flattened(args)])

SelectQuery_fields(b, idx, args) ==
  IF b.kind # "select" THEN not_supported(b)
  ELSE LET i == TableAt(b, idx, 1)
       IN  IF args = <<>> THEN Ok(b)
           ELSE IF i > Len(b.tables) THEN Raise(b, Throw("TypeError"))
           ELSE Ok([b EXCEPT !.tables[i].fields = @ \o args])

SelectQuery_alias(b, idx, alias) ==
  IF b.kind # "select" THEN Raise(b, Throw("TypeError"))
  ELSE LET i == TableAt(b, idx, 1)
       IN  IF i > Len(b.tables) THEN Raise(b, Throw("TypeError"))
           ELSE Ok([b EXCEPT !.tables[i].options.alias = alias])

\* a join that leaves the options of the primary table alone
SelectQuery_join_keep(b, type, filter, alias) ==
  IF b.kind # "select" THEN Raise(b, Throw("TypeError"))
  ELSE Ok([b EXCEPT
             !.tables = Append(@, TableInfo(filter, [useName |-> TRUE, alias |-> alias], type))])

\* inner_join, left_join and right_join differ in the type they record
SelectQuery_join(b, type, filter, alias) ==
  IF b.kind # "select" THEN Raise(b, Throw("TypeError"))
  ELSE Ok([b EXCEPT
             !.tables = Append(@, TableInfo(filter, [useName |-> TRUE, alias |-> alias], type)),
             !.tables[1].options.useName = TRUE])

\* an on whose default target is the first join
SelectQuery_on_first(b, idx, args) ==
  IF b.kind # "select" THEN Raise(b, Throw("TypeError"))
  ELSE LET i == TableAt(b, idx, 2)
       IN  IF args = <<>> THEN Ok(b)
           ELSE IF i > Len(b.tables) THEN Raise(b, Throw("TypeError"))
           ELSE Ok([b EXCEPT !.tables[i].on = @ \o args])

SelectQuery_on(b, idx, args) ==
  IF b.kind # "select" THEN Raise(b, Throw("TypeError"))
  ELSE LET i == TableAt(b, idx, Len(b.tables))
       IN  IF args = <<>> THEN Ok(b)
           ELSE IF i > Len(b.tables) THEN Raise(b, Throw("TypeError"))
           ELSE Ok([b EXCEPT !.tables[i].on = @ \o args])

(***************************************************************************)
(* Building the text.                                                      *)
(***************************************************************************)
\* Array.prototype.join of the limit parameters
getLimit(b) ==
  IF Len(b.limit) > 0
    THEN Kw(" LIMIT ")
           \o Join([i \in 1..Len(b.limit) |->
                     <<Tok("verbatim", IF b.limit[i] = Undef THEN ""
                                       ELSE ToJsString(b.limit[i]))>>],
                   Kw(", "))
    ELSE <<>>

Query_getWhere(b) ==
  filter_where(b.tables[1].filter, b.tables[1].where, b.tables[1].options)

\* a table named by its table name whatever its alias
getTableAlias_name(b, i) == b.tables[i].filter.table

getTableAlias(b, i) ==
  IF Len(b.tables[i].options.alias) > 0
    THEN b.tables[i].options.alias ELSE b.tables[i].filter.table

\* the entries of s that are not the empty string, in order
RECURSIVE NonEmpty(_)
NonEmpty(texts) ==
  IF texts = <<>> THEN <<>>
  ELSE (IF Len(Str(Head(texts))) > 0 THEN <<Head(texts)>> ELSE <<>>)
         \o NonEmpty(Tail(texts))

\* keyword + the texts that are not empty, joined by sep; nothing when all
\* are empty
ClauseOf(keyword, texts, sep) ==
  IF \E i \in DOMAIN texts : Threw(texts[i]) THEN ThrownBy(texts)
  ELSE IF Len(NonEmpty(texts)) > 0 THEN Kw(keyword) \o Join(NonEmpty(texts), sep)
  ELSE <<>>

\* the texts decode_filter returns for the tables, in table order
TableWheres(b) ==
  [i \in 1..Len(b.tables) |->
     decode_filter(b.tables[i].filter, b.tables[i].where, " AND ", b.tables[i].options)]

\* a getWhere that joins the text of every table, empty or not
SelectQuery_getWhere_all(b) ==
  IF \E i \in DOMAIN TableWheres(b) : Threw(TableWheres(b)[i]) THEN ThrownBy(TableWheres(b))
  ELSE Prefixed(" WHERE ", Join(TableWheres(b), Kw(" AND ")))

SelectQuery_getWhere(b) == ClauseOf(" WHERE ", TableWheres(b), Kw(" AND "))

\* v.group.map(escapeKey).join(', ') of one table
TableKeys(t, keys) ==
  JoinOrThrow([i \in 1..Len(keys) |-> escapeKey(t.filter, keys[i], t.options)], Kw(", "))

\* ' GROUP BY ' + groups: the array is turned to a string, its entries
\* separated by a comma
getGroupBy(b) ==
  ClauseOf(" GROUP BY ",
           [i \in 1..Len(b.tables) |-> TableKeys(b.tables[i], b.tables[i].group)],
           Kw(","))

getOrderBy(b) ==
  ClauseOf(" ORDER BY ",
           [i \in 1..Len(b.tables) |-> TableKeys(b.tables[i], b.tables[i].order)],
           Kw(","))

getTableFields(t) ==
  IF Len(t.fields) > 0
    THEN JoinOrThrow(
           [i \in 1..Len(t.fields) |->
              IF IsArray(t.fields[i])
                THEN Cat(<<escapeKey(t.filter, t.fields[i].a[1], t.options), Kw(" AS "),
                           <<Tok("verbatim", ToJsString(t.fields[i].a[2]))>> >>)
                ELSE escapeKey(t.filter, t.fields[i], t.options)],
           Kw(", "))
    ELSE escapeKey(t.filter, JStr("*"), t.options)

\* a field list that leaves out the tables without fields as soon as one
\* table has fields
getFields_explicit(b) ==
  IF \A i \in DOMAIN b.tables : Len(b.tables[i].fields) = 0
    THEN JoinOrThrow([i \in 1..Len(b.tables) |-> getTableFields(b.tables[i])], Kw(", "))
    ELSE JoinOrThrow([i \in 1..Len(SelectSeq(b.tables, LAMBDA t : Len(t.fields) > 0)) |->
                        getTableFields(SelectSeq(b.tables, LAMBDA t : Len(t.fields) > 0)[i])],
                     Kw(", "))

getFields(b) ==
  JoinOrThrow([i \in 1..Len(b.tables) |-> getTableFields(b.tables[i])], Kw(", "))

\* an ON-pair is the sequence of its <<k, column>> entries, k a table index
OnPairText(b, pair) ==
  JoinOrThrow([j \in 1..Len(pair) |->
                 IF pair[j][1] + 1 \in DOMAIN b.tables
                   THEN <<Tok("qual", mysql_escapeId(getTableAlias(b, pair[j][1] + 1)) \o "."),
                          Tok("col", mysql_escapeId(pair[j][2]))>>
                   ELSE Throw("TypeError")],
              Kw(" = "))

getOnClause(b, on) ==
  IF Len(on) > 0
    THEN Cat(<<Kw(" ON "),
               JoinOrThrow([i \in 1..Len(on) |-> OnPairText(b, on[i])], Kw(" AND "))>>)
    ELSE <<>>

getTableNameClause(b) ==
  JoinOrThrow(
    [i \in 1..Len(b.tables) |->
       LET v    == b.tables[i]
           name == <<Tok("name", v.filter.table)>>
                     \o (IF Len(v.options.alias) > 0
                           THEN Kw(" AS ") \o <<Tok("verbatim", v.options.alias)>>
                           ELSE <<>>)
       IN  IF Len(v.type) > 0
             THEN Cat(<<Kw(v.type \o " JOIN "), name, getOnClause(b, v.on)>>)
             ELSE name],
    Kw(" "))

DeleteQuery_buildQuery(b) ==
  Cat(<<Kw("DELETE FROM "), <<Tok("name", b.tables[1].filter.table)>>,
        Query_getWhere(b), getLimit(b)>>)

InsertQuery_buildQuery(b) ==
  Cat(<<Kw("INSERT INTO "), <<Tok("name", b.tables[1].filter.table)>>,
        filter_set(b.tables[1].filter, b.values)>>)

UpdateQuery_buildQuery(b) ==
  Cat(<<Kw("UPDATE "), <<Tok("name", b.tables[1].filter.table)>>,
        filter_set(b.tables[1].filter, b.values), Query_getWhere(b), getLimit(b)>>)

\* a build that emits ORDER BY ahead of GROUP BY
SelectQuery_buildQuery_swapped(b) ==
  Cat(<<Kw("SELECT "), getFields(b), Kw(" FROM "), getTableNameClause(b),
        SelectQuery_getWhere(b), getOrderBy(b), getGroupBy(b), getLimit(b)>>)

SelectQuery_buildQuery(b) ==
  Cat(<<Kw("SELECT "), getFields(b), Kw(" FROM "), getTableNameClause(b),
        SelectQuery_getWhere(b), getGroupBy(b), getOrderBy(b), getLimit(b)>>)

buildQuery(b) ==
  CASE b.kind = "select" -> SelectQuery_buildQuery(b)
    [] b.kind = "insert" -> InsertQuery_buildQuery(b)
    [] b.kind = "update" -> UpdateQuery_buildQuery(b)
    [] OTHER             -> DeleteQuery_buildQuery(b)


(***************************************************************************)
(* The builder as a state machine: the arguments the calls are made with.  *)
(***************************************************************************)
id1       == <<<<"id", Num(1)>>>>
thread1   == <<<<"threadId", Num(1)>>>>
saltLen   == <<<<"salt", op_gt2args(op_length(Undef), Num(5))>>>>
hiddenMap == <<<<"hidden", Num(1)>>>>

WhereArgs == {<<>>, id1, thread1, saltLen, hiddenMap}
FieldArgs == {<<JStr("id"), JStr("user")>>, <<Arr(<<op_count(JStr("id")), JStr("c")>>)>>}
OrderArgs == {<<op_desc(JStr("id")), JStr("status")>>, <<Arr(<<JStr("id"), JStr("registered")>>)>>}
GroupArgs == {<<Arr(<<JStr("status"), JStr("registered")>>)>>, <<op_left(JStr("user"), Num(3))>>}
LimitArgs == {<<Num(1)>>, <<Num(5)>>, <<Num(1), Num(2)>>}
OnArgs    == {<< <<<<0, "id">>, <<1, "userId">>>> >>,
              << <<<<0, "id">>, <<2, "userId">>>>, <<<<1, "threadId">>, <<2, "threadId">>>> >>}
JoinArgs  == {<<posts, "p">>, <<users, "">>}
Aliases   == {"u", ""}
Indexes   == {-1, 1}
OnIndexes == {-1, 0, 1}

InitBuilders ==
  {SelectQuery(users, w, a) : w \in {<<>>, id1}, a \in {"", "u"}}
    \cup {SelectQuery(posts, thread1, "p")}
    \cup {DeleteQuery(users, w) : w \in {<<>>, <<<<"id", Arr(<<Num(1), Num(2), Num(3)>>)>>>>}}
    \cup {InsertQuery(users, <<<<"user", JStr("greg")>>,
                               <<"password", op_md5(JStr("test"))>>,
                               <<"registered", op_now>>>>)}
    \cup {UpdateQuery(users, <<<<"post_count", op_add1(Num(1))>>>>, <<<<"id", Num(5)>>>>),
          UpdateQuery(users, <<<<"post_count", Num(0)>>>>, <<>>)}

\* the requests, and the filter object registered as db.filters.users
Requests == {1, 2}
Template == 0

\* conn = null
NoConn == 0

\* a filter object as the constructor leaves it: no connection, no counters
NewFilter == [conn |-> NoConn, queries |-> << >>]

\* a request that has not cloned: its position, its filter object, the number
\* of exec calls it made and the builder of the last one, the queries whose
\* hash is awaited, what its continuations were called with, what its last
\* call threw, and the SQL of the exec calls whose build returned
NewRequest(pc) ==
  [pc |-> pc, fid |-> Template, nexec |-> 0, b |-> << >>, hashing |-> << >>,
   cbs |-> << >>, raised |-> << >>, sent |-> << >>]

CallsIdle == croot = <<>> /\ cstack = <<>> /\ ccalls = 0

ExecIdle ==
  /\ env = [stream |-> FALSE]
  /\ filters = [o \in {Template} \cup Requests |-> NewFilter]
  /\ req = [r \in Requests |-> NewRequest("idle")]
  /\ conns = [c \in Requests |-> << >>]

\* no configuration call has been made
NoCall == [op |-> "", idx |-> -1, args |-> <<>>, pre |-> <<>>]

DecodeIdle ==
  /\ dfilter = users /\ dparams = <<>> /\ dopts = EmptyOptions
  /\ dout = <<>> /\ dpc = "idle"

Init ==
  /\ q \in InitBuilders
  /\ built = <<>> /\ nbuilt = 0 /\ ncalls = 0 /\ raised = <<>> /\ hlimit = <<>>
  /\ hcall = NoCall
  /\ DecodeIdle
  /\ ExecIdle /\ CallsIdle

\* the call op(idx, args) is made on the builder
Called(op, idx, args) == hcall' = [op |-> op, idx |-> idx, args |-> args, pre |-> q]

\* a configuration call with outcome r
Configure(r) ==
  /\ ncalls < MaxCalls
  /\ q' = r.q /\ raised' = r.raised
  /\ ncalls' = ncalls + 1 /\ built' = <<>> /\ nbuilt' = 0
  /\ UNCHANGED <<dfilter, dparams, dopts, dout, dpc, execvars, callvars>>

Where  == \E i \in Indexes, w \in WhereArgs :
            Configure(Query_where(q, i, w)) /\ Called("where", i, w) /\ UNCHANGED hlimit
Limit  == \E l \in LimitArgs :
            /\ Configure(Query_limit(q, l)) /\ Called("limit", -1, l)
            /\ hlimit' = IF q.kind # "insert" THEN l ELSE hlimit
Group  == \E i \in Indexes, a \in GroupArgs :
            Configure(SelectQuery_group(q, i, a)) /\ Called("group", i, a) /\ UNCHANGED hlimit
Order  == \E i \in Indexes, a \in OrderArgs :
            Configure(SelectQuery_order(q, i, a)) /\ Called("order", i, a) /\ UNCHANGED hlimit
Fields == \E i \in Indexes, a \in FieldArgs :
            Configure(SelectQuery_fields(q, i, a)) /\ Called("fields", i, a) /\ UNCHANGED hlimit
Alias  == \E i \in Indexes, a \in Aliases :
            Configure(SelectQuery_alias(q, i, a)) /\ Called("alias", i, a) /\ UNCHANGED hlimit
On     == \E i \in OnIndexes, a \in OnArgs :
            Configure(SelectQuery_on(q, i, a)) /\ Called("on", i, a) /\ UNCHANGED hlimit

JoinAllowed == Len(q.tables) <= MaxJoins
InnerJoin == JoinAllowed /\ \E j \in JoinArgs :
               Configure(SelectQuery_join(q, "INNER", j[1], j[2])) /\ Called("inner_join", -1, j) /\ UNCHANGED hlimit
LeftJoin  == JoinAllowed /\ \E j \in JoinArgs :
               Configure(SelectQuery_join(q, "LEFT", j[1], j[2])) /\ Called("left_join", -1, j) /\ UNCHANGED hlimit
RightJoin == JoinAllowed /\ \E j \in JoinArgs :
               Configure(SelectQuery_join(q, "RIGHT", j[1], j[2])) /\ Called("right_join", -1, j) /\ UNCHANGED hlimit

\* buildQuery assigns nothing of the builder
\* the caller of buildQuery gets the text, or the exception
Returned(text) ==
  /\ built' = IF Threw(text) THEN <<>> ELSE text
  /\ raised' = IF Threw(text) THEN text ELSE <<>>

\* a build that uses up the limit it emits
BuildQuery_consuming ==
  /\ nbuilt < MaxBuilds
  /\ Returned(buildQuery(q))
  /\ nbuilt' = nbuilt + 1
  /\ q' = [q EXCEPT !.limit = <<>>]
  /\ UNCHANGED <<ncalls, hlimit, hcall, dfilter, dparams, dopts, dout, dpc, execvars, callvars>>

BuildQuery ==
  /\ nbuilt < MaxBuilds
  /\ Returned(buildQuery(q))
  /\ nbuilt' = nbuilt + 1
  /\ UNCHANGED <<q, ncalls, hlimit, hcall, dfilter, dparams, dopts, dout, dpc, execvars, callvars>>

Next ==
  \/ Where \/ Limit \/ Group \/ Order \/ Fields \/ Alias \/ On
  \/ InnerJoin \/ LeftJoin \/ RightJoin
  \/ BuildQuery

Spec == Init /\ [][Next]_vars


(***************************************************************************)
(* The decoder on its own: where and set of a filter applied to a filter   *)
(* map drawn from DecodeMaps.                                              *)
(***************************************************************************)
\* a filter with one column of each declared type
typed ==
  [table   |-> "typed",
   columns |-> [id |-> <<int_t>>, day |-> <<date_t>>, at |-> <<timestamp_t>>,
                registered |-> <<datetime_t>>, content |-> <<text_t>>,
                salt |-> <<char_t, 8>>],
   special |-> << >>]

Scalars ==
  {Num(1), Num(5), JStr("bob"), JStr("x' OR '1'='1"), JStr("NOW()"),
   JStr("CURDATE()"), JStr("saltysalty"), JStr("2013-02-03 04:05:06"), JStr("12abc")}

Lists == {Arr(<<Num(1), Num(2)>>), Arr(<<JStr("bob")>>), Arr(<<>>)}

\* function, infix and field-reference nodes over a leaf
FnNodes(l) ==
  {op_md5(l), op_add1(l), op_pow1(l), op_concat(op_field(JStr("salt")), l),
   op_add(JStr("salt"), l), op_mult(op_add(JStr("salt"), Num(1)), l),
   op_mult(JStr("salt"), op_add1(l)), op_mult(op_acos(JStr("id")), l),
   op_atan2(JStr("id"), l), op_left(JStr("user"), l),
   op_length(Undef), op_field(JStr("salt")), op_field(Undef), op_now}

\* conditional nodes over a leaf
CondNodes(l) ==
  {op_eq(l), op_neq(l), op_gt(l), op_like(l), op_not_like(l),
   op_in(Arr(<<l, Num(2)>>)), op_eq(op_md5(l)), op_gt2args(op_length(Undef), l),
   op_gt2(op_length(JStr("salt")), l), op_in2args(op_pow1(Num(2)), Arr(<<l, Num(4)>>)),
   op_eq(op_add1(l))}

Twice(s) == s \o s

RECURSIVE Repeat(_, _)
\* the string s written n times
Repeat(s, n) ==
  IF n = 0 THEN ""
  ELSE IF n % 2 = 0 THEN Twice(Repeat(s, n \div 2))
  ELSE s \o Twice(Repeat(s, n \div 2))

\* strings with a sign, white space, a zero and more digits than a Number holds
Numerals ==
  {JStr("-7"), JStr("  42"), JStr("-0"), JStr("007"), JStr(Repeat("9", InfinityDigits))}

PlainValues == Scalars \cup Lists \cup {Re("^asd")} \cup Numerals
PureNodes ==
  UNION {FnNodes(l) \cup CondNodes(l) : l \in Scalars}
    \cup {op_regex(Re("^asd")), op_not_regex(Re("^asd")), op_regex(JStr("^asd")),
          op_not_in(Arr(<<>>)), op_in(Arr(<<>>))}
RawNodes == {op_raw("1=1"), op_raw("")}
DecodeValues == PlainValues \cup PureNodes \cup RawNodes

DecodeKeys ==
  {"id", "user", "salt", "registered", "day", "content", "7", "*",
   "salt_pw", "parent", "hidden", "toString"}

\* the maps of several keys: every arrangement of two or three of MultiKeys,
\* each key with its value
MultiKeys == {"id", "user", "7", "2", "hidden", "parent", "salt_pw"}
MultiValue(k) ==
  CASE k = "id"   -> Num(1)
    [] k = "user" -> op_like(JStr("%bob%"))
    [] k = "7"    -> JStr("seven")
    [] k = "2"    -> Arr(<<Num(1), Num(2)>>)
    [] OTHER      -> JStr("password")

MultiMaps ==
  {<< <<t[1], MultiValue(t[1])>>, <<t[2], MultiValue(t[2])>> >> :
      t \in {u \in MultiKeys \X MultiKeys : u[1] # u[2]}}
    \cup
  {<< <<t[1], MultiValue(t[1])>>, <<t[2], MultiValue(t[2])>>, <<t[3], MultiValue(t[3])>> >> :
      t \in {u \in MultiKeys \X MultiKeys \X MultiKeys :
               u[1] # u[2] /\ u[1] # u[3] /\ u[2] # u[3]}}

DecodeMaps ==
  {<<>>} \cup {<< <<k, v>> >> : k \in DecodeKeys, v \in DecodeValues} \cup MultiMaps

DecodeOptions ==
  {EmptyOptions, [useName |-> TRUE, alias |-> ""], [useName |-> TRUE, alias |-> "u"]}

BuilderIdle ==
  /\ q = SelectQuery(users, <<>>, "") /\ built = <<>> /\ nbuilt = 0
  /\ ncalls = 0 /\ raised = <<>> /\ hlimit = <<>> /\ hcall = NoCall

InitDecode ==
  /\ BuilderIdle
  /\ ExecIdle /\ CallsIdle
  /\ dfilter \in {users, posts, typed}
  /\ dparams \in DecodeMaps
  /\ dopts \in DecodeOptions
  /\ dout = <<>> /\ dpc = "ready"

CallWhere ==
  /\ dpc = "ready"
  /\ dout' = filter_where(dfilter, dparams, dopts)
  /\ dpc' = "where"
  /\ UNCHANGED <<q, built, nbuilt, ncalls, raised, hlimit, hcall, dfilter, dparams, dopts, execvars, callvars>>

\* set takes no options
CallSet ==
  /\ dpc = "ready"
  /\ dopts = EmptyOptions
  /\ dout' = filter_set(dfilter, dparams)
  /\ dpc' = "set"
  /\ UNCHANGED <<q, built, nbuilt, ncalls, raised, hlimit, hcall, dfilter, dparams, dopts, execvars, callvars>>

\* the same map decoded by a clone of the filter
CallCloneDecode ==
  /\ dpc = "ready"
  /\ dout' = decode_filter(clone(dfilter), dparams, " AND ", dopts)
  /\ dpc' = "clone"
  /\ UNCHANGED <<q, built, nbuilt, ncalls, raised, hlimit, hcall, dfilter, dparams, dopts, execvars, callvars>>

NextDecode == CallWhere \/ CallSet \/ CallCloneDecode

SpecDecode == InitDecode /\ [][NextDecode]_vars


(***************************************************************************)
(* Execution: two requests clone the registered filter, attach their       *)
(* connection and call exec on builders of their clone; the connections    *)
(* complete the submitted queries in any order, with or without an error.  *)
(***************************************************************************)
MaxExecs == 2

\* a clone that hands out the registered object itself
clone_shared(r) == Template

\* new db(...) of clone: a fresh object, here the one of the request
clone_target(r) == r

\* the connection a request attaches
ConnOf(r) == r

\* the builders a request executes, made on its clone
ExecBuilders ==
  {SelectQuery(clone(users), id1, ""),
   DeleteQuery(clone(users), id1),
   SelectQuery(clone(users), <<<<"id", op_asc(JStr("id"))>>>>, ""),
   SelectQuery_fields(SelectQuery(clone(users), id1, ""), -1, <<op_eq(Num(1))>>).q,
   SelectQuery_order(SelectQuery(clone(users), id1, ""), -1, <<op_like(JStr("a%"))>>).q,
   SelectQuery_group(SelectQuery(clone(users), id1, ""), -1, <<op_in(Arr(<<Num(1)>>))>>).q}

\* _.extend({sql : query}, this._options): what exec hands to filter.query
ExecQuery(text) == [sql |-> Str(text)]

\* the hex digest of the md5 of the query
md5(query) == "md5:" \o query.sql

\* what the crypto module of the host does with the query it is given to
\* hash: it yields a digest, or rejects an argument that is neither a string
\* nor a buffer
HashOutcomes == {"digest", "TypeError"}

\* doquery: qi.count++ or a new entry with count 1
Counted(queries, key, query) ==
  IF key \in DOMAIN queries
    THEN [queries EXCEPT ![key].count = @ + 1]
    ELSE queries @@ (key :> [count |-> 1, sql |-> query])

\* doquery(key) run for request r: the counter, then that.conn.query(query,
\* callback); a filter with no connection throws after the counter
doquery(r, query, rq) ==
  /\ filters' = [filters EXCEPT ![req[r].fid].queries = Counted(@, md5(query), query)]
  /\ IF filters[req[r].fid].conn = NoConn
       THEN /\ req' = [req EXCEPT ![r] = [rq EXCEPT !.raised = Throw("TypeError")]]
            /\ UNCHANGED conns
       ELSE /\ req' = [req EXCEPT ![r] = rq]
            /\ conns' = [conns EXCEPT ![filters[req[r].fid].conn] =
                           Append(@, [by |-> r, query |-> query, state |-> "pending", err |-> 0])]

\* filter.query(query, success, failure) called by exec of request r
filter_query(r, query, rq) ==
  IF env.stream
    THEN \* hash.on('readable', ...); hash.write(query, 'utf8')
         \E o \in HashOutcomes :
           /\ req' = [req EXCEPT ![r] =
                        IF o = "digest"
                          THEN [rq EXCEPT !.hashing = Append(@, query)]
                          ELSE [rq EXCEPT !.raised = Throw("TypeError")]]
           /\ UNCHANGED <<filters, conns>>
    ELSE \* hash.update(query, 'utf8'); doquery(hash.digest('hex'))
         \E o \in HashOutcomes :
           IF o = "digest" THEN doquery(r, query, rq)
           ELSE /\ req' = [req EXCEPT ![r] = [rq EXCEPT !.raised = Throw("TypeError")]]
                /\ UNCHANGED <<filters, conns>>

\* exec of builder b, whose buildQuery gave text
exec(r, b, text) ==
  IF Threw(text)
    THEN /\ req' = [req EXCEPT ![r].nexec = @ + 1, ![r].b = b, ![r].raised = text]
         /\ UNCHANGED <<filters, conns>>
    ELSE filter_query(r, ExecQuery(text),
                      [req[r] EXCEPT !.nexec = @ + 1, !.b = b, !.raised = << >>,
                                     !.sent = Append(@, Str(text))])

BuilderAndDecodeIdleRest ==
  UNCHANGED <<q, built, nbuilt, ncalls, raised, hlimit, hcall,
              dfilter, dparams, dopts, dout, dpc, execvars>>

BuilderAndDecodeIdle ==
  UNCHANGED <<q, built, nbuilt, ncalls, raised, hlimit, hcall,
              dfilter, dparams, dopts, dout, dpc, callvars>>

\* filters.users = db.filters.users.clone()
Clone(r) ==
  /\ req[r].pc = "start"
  /\ req' = [req EXCEPT ![r].pc = "cloned", ![r].fid = clone_target(r)]
  /\ filters' = [filters EXCEPT ![clone_target(r)] = NewFilter]
  /\ UNCHANGED <<env, conns>> /\ BuilderAndDecodeIdle

\* set_conn(conn) with no callback to chain
SetConn(r) ==
  /\ req[r].pc = "cloned"
  /\ filters' = [filters EXCEPT ![req[r].fid].conn = ConnOf(r)]
  /\ req' = [req EXCEPT ![r].pc = "ready"]
  /\ UNCHANGED <<env, conns>> /\ BuilderAndDecodeIdle

Exec(r) ==
  /\ req[r].pc = "ready" /\ req[r].nexec < MaxExecs
  /\ \E b \in ExecBuilders : exec(r, b, buildQuery(b))
  /\ UNCHANGED env /\ BuilderAndDecodeIdle

\* the 'readable' event of the hash stream: doquery(hash.read())
Readable(r) ==
  /\ req[r].hashing # << >>
  /\ doquery(r, Head(req[r].hashing), [req[r] EXCEPT !.hashing = Tail(@)])
  /\ UNCHANGED env /\ BuilderAndDecodeIdle

\* what the connection reports: no error (0), or an error
Errors == {0, 1062}

\* _.extend(err, {'query' : query})
ExtendedError(err, query) == [errno |-> err, query |-> query]

\* a callback that takes every completion for a success
Callback_success(err, query) == [fn |-> "success", arg |-> [rows |-> query.sql]]

\* the callback handed to conn.query, called by the connection with (err, rows)
Callback(err, query) ==
  IF err # 0 THEN [fn |-> "failure", arg |-> ExtendedError(err, query)]
  ELSE [fn |-> "success", arg |-> [rows |-> query.sql]]

\* connection c completes the i-th query submitted to it
Complete(c, i) ==
  /\ i \in DOMAIN conns[c] /\ conns[c][i].state = "pending"
  /\ \E err \in Errors :
       /\ conns' = [conns EXCEPT ![c][i].state = "done", ![c][i].err = err]
       /\ req' = [req EXCEPT ![conns[c][i].by].cbs =
                    Append(@, Callback(err, conns[c][i].query))]
  /\ UNCHANGED <<env, filters>> /\ BuilderAndDecodeIdle

InitExec ==
  /\ BuilderIdle /\ DecodeIdle /\ CallsIdle
  /\ env \in {[stream |-> FALSE], [stream |-> TRUE]}
  /\ filters = [o \in {Template} \cup Requests |-> NewFilter]
  /\ req = [r \in Requests |-> NewRequest("start")]
  /\ conns = [c \in Requests |-> << >>]

NextExec ==
  \/ \E r \in Requests : Clone(r)
  \/ \E r \in Requests : SetConn(r)
  \/ \E r \in Requests : Exec(r)
  \/ \E r \in Requests : Readable(r)
  \/ \E c \in Requests : \E i \in 1..(2 * MaxExecs) : Complete(c, i)

SpecExec == InitExec /\ [][NextExec]_vars

\* the connection completes every query it was given; nothing makes the hash
\* stream readable
SpecExecFair ==
  SpecExec /\ \A c \in Requests : \A i \in 1..(2 * MaxExecs) : WF_vars(Complete(c, i))


(***************************************************************************)
(* Properties: what they are stated with.                                  *)
(***************************************************************************)
\* the kinds of the tokens of a text
Kinds(text) == {text[i].k : i \in DOMAIN text}

HasToken(text, tok) == \E i \in DOMAIN text : text[i] = tok

\* the positions of a keyword and of the separators in a text
KeywordAt(text, s) == {i \in DOMAIN text : text[i] = Tok("kw", s)}
Separators(text) == {i \in DOMAIN text : text[i].k = "sep"}

Built == nbuilt >= 1 /\ raised = <<>>
Decoded == dpc \in {"where", "set"}

DecodeOptionsUsed == IF dpc = "where" THEN dopts ELSE EmptyOptions

\* the clause where or set makes of the joined terms
Clause(keyword, terms, sep) ==
  LET body == Join(terms, <<Tok("sep", sep)>>)
  IN  IF Len(Str(body)) > 0 THEN Kw(keyword) \o body ELSE <<>>

DecodedClause(terms) ==
  IF dpc = "where" THEN Clause(" WHERE ", terms, " AND ")
  ELSE Clause(" SET ", terms, ", ")

\* the key has a handler registered with the filter
IsSpecial(filter, key) == key \in DOMAIN filter.special

\* a value that is no operator node, and the operator it stands for
IsPlain(v) == ~IsOperator(v)

Explicit(v) ==
  IF IsArray(v) THEN op_in(v)
  ELSE IF IsRegExp(v) THEN op_regex(v)
  ELSE op_eq(v)

ExplicitMap(filter, params) ==
  [i \in DOMAIN params |->
     IF IsPlain(params[i][2]) /\ special_lookup(filter, params[i][1]) = ""
       THEN <<params[i][1], Explicit(params[i][2])>>
       ELSE params[i]]

\* the term of a key that has no handler, by the kind of its value
IsFunctionNode(v) ==
  /\ IsOperator(v)
  /\ v.cls \in {"NullaryFunction", "UnaryFunction", "BinaryFunction",
                "BinaryInfixOperator", "FieldFunction"}

ExpectedTerm(filter, key, v, options) ==
  CASE IsFunctionNode(v) ->
         escapeKey(filter, JStr(key), options) \o <<Tok("kw", " = ")>>
           \o get(v, JStr(key), filter, options)
    [] IsConditional(v) -> get(v, JStr(key), filter, options)
    [] OTHER            -> <<Tok("verbatim", v.str)>>

\* the terms of a map, key by key as inserted: the terms of its handler for
\* a key that has one, one term for any other key
RECURSIVE TermsInInsertionOrder(_, _, _)
TermsInInsertionOrder(filter, params, options) ==
  IF params = <<>> THEN <<>>
  ELSE LET key   == Head(params)[1]
           value == Head(params)[2]
       IN  (IF IsSpecial(filter, key)
              THEN special_call(filter, filter.special[key], key, value, options)
              ELSE <<ExpectedTerm(filter, key,
                                  IF IsPlain(value) THEN Explicit(value) ELSE value,
                                  options)>>)
             \o TermsInInsertionOrder(filter, Tail(params), options)

\* a value holds a raw node
RECURSIVE HasRaw(_)
HasRaw(v) ==
  /\ IsOperator(v)
  /\ \/ IsRawFunction(v)
     \/ \E f \in DOMAIN v \ {"t", "cls", "name", "require_group", "fn", "invert", "order"} :
           HasRaw(v[f])

NoRawNodes(params) == \A i \in DOMAIN params : ~HasRaw(params[i][2])

\* the kinds of token that the escapers and canonicalizers produce, with
\* the keywords and separators of the library itself
EscapedKinds == {"kw", "sep", "qual", "col", "lit", "canon"}

\* the date expressions handle_date and handle_datetime let through for the
\* columns of a map
DateTokens(filter, params) ==
  UNION {LET ht == ColumnType(filter, JStr(params[i][1]))
         IN  IF ht = <<date_t>> THEN {"CURDATE()", "CURRENT_DATE()"}
             ELSE IF ht = <<datetime_t>> \/ ht = <<timestamp_t>> THEN {"NOW()"}
             ELSE {} : i \in DOMAIN params}

\* the prefix that stands for table i of a builder
Qualifier(b, i) ==
  Tok("qual", mysql_escapeId(IF b.tables[i].options.alias # ""
                               THEN b.tables[i].options.alias
                               ELSE b.tables[i].filter.table) \o ".")

IsColumn(tok) == tok.k \in {"col", "star"}

QualifiedBy(text, qual) ==
  \A j \in DOMAIN text :
    /\ IsColumn(text[j]) => j > 1 /\ text[j - 1] = qual
    /\ text[j].k = "qual" => text[j] = qual

\* the texts of the clauses of table i
TablePieces(b, i) ==
  LET t == b.tables[i]
  IN  {getTableFields(t), decode_filter(t.filter, t.where, " AND ", t.options),
       TableKeys(t, t.group), TableKeys(t, t.order)}

ClauseKeywords == <<"SELECT ", " FROM ", " WHERE ", " GROUP BY ", " ORDER BY ", " LIMIT ">>

ClausesInOrder(text) ==
  /\ KeywordAt(text, "SELECT ") = {1}
  /\ Cardinality(KeywordAt(text, " FROM ")) = 1
  /\ \A a \in DOMAIN ClauseKeywords : Cardinality(KeywordAt(text, ClauseKeywords[a])) <= 1
  /\ \A a, b \in DOMAIN ClauseKeywords :
       a < b => \A i \in KeywordAt(text, ClauseKeywords[a]),
                   j \in KeywordAt(text, ClauseKeywords[b]) : i < j

\* the configuration calls of the clauses of a select
ClauseNames == <<"where", "fields", "group", "order", "limit">>

ClauseCalls(c) ==
  CASE c = "where"  -> {[c |-> c, i |-> i, a |-> a] : i \in Indexes, a \in WhereArgs}
    [] c = "fields" -> {[c |-> c, i |-> i, a |-> a] : i \in Indexes, a \in FieldArgs}
    [] c = "group"  -> {[c |-> c, i |-> i, a |-> a] : i \in Indexes, a \in GroupArgs}
    [] c = "order"  -> {[c |-> c, i |-> i, a |-> a] : i \in Indexes, a \in OrderArgs}
    [] OTHER        -> {[c |-> c, i |-> -1, a |-> a] : a \in LimitArgs}

Call(b, call) ==
  CASE call.c = "where"  -> Query_where(b, call.i, call.a)
    [] call.c = "fields" -> SelectQuery_fields(b, call.i, call.a)
    [] call.c = "group"  -> SelectQuery_group(b, call.i, call.a)
    [] call.c = "order"  -> SelectQuery_order(b, call.i, call.a)
    [] OTHER             -> Query_limit(b, call.a)

\* c1 then c2 and c2 then c1, both on builder b, leave the same builder;
\* the texts are compared where the bound on calls leaves room for them
CallsCommute(b, c1, c2) ==
  LET r1  == Call(b, c1)
      r12 == Call(r1.q, c2)
      r2  == Call(b, c2)
      r21 == Call(r2.q, c1)
  IN  r1.raised = <<>> /\ r12.raised = <<>> /\ r2.raised = <<>> /\ r21.raised = <<>> =>
        /\ r12.q = r21.q
        /\ ncalls + 2 <= MaxCalls => Str(buildQuery(r12.q)) = Str(buildQuery(r21.q))

\* the decoded filter maps of the tables from table i on, the empty ones
\* left out
RECURSIVE WhereParts(_, _)
WhereParts(b, i) ==
  IF i > Len(b.tables) THEN <<>>
  ELSE LET t == b.tables[i]
           d == decode_filter(t.filter, t.where, " AND ", t.options)
       IN  (IF Str(d) = "" THEN <<>> ELSE <<d>>) \o WhereParts(b, i + 1)

RECURSIVE AndJoined(_)
AndJoined(parts) ==
  IF Len(parts) = 1 THEN parts[1]
  ELSE parts[1] \o <<Tok("kw", " AND ")>> \o AndJoined(Tail(parts))

ExpectedWhere(b) ==
  IF WhereParts(b, 1) = <<>> THEN <<>>
  ELSE <<Tok("kw", " WHERE ")>> \o AndJoined(WhereParts(b, 1))

\* the tokens of a text from its WHERE keyword up to the next clause
WhereSection(text) ==
  IF KeywordAt(text, " WHERE ") = {} THEN <<>>
  ELSE LET from  == CHOOSE i \in KeywordAt(text, " WHERE ") : TRUE
           later == KeywordAt(text, " GROUP BY ") \cup KeywordAt(text, " ORDER BY ")
                      \cup KeywordAt(text, " LIMIT ") \cup {Len(text) + 1}
           to    == CHOOSE i \in later : \A j \in later : i <= j
       IN  SubSeq(text, from, to - 1)

\* the number of terms the handlers of the model add
HandlerTerms(handler) ==
  CASE handler = "salt_pw" -> 1
    [] handler = "parent"  -> 2
    [] OTHER               -> 0

RECURSIVE ExpectedTermCount(_, _)
ExpectedTermCount(filter, params) ==
  IF params = <<>> THEN 0
  ELSE (IF special_lookup(filter, Head(params)[1]) # ""
          THEN HandlerTerms(special_lookup(filter, Head(params)[1])) ELSE 1)
         + ExpectedTermCount(filter, Tail(params))

LimitText(args) ==
  IF Len(args) = 1 THEN " LIMIT " \o ToJsString(args[1])
  ELSE " LIMIT " \o ToJsString(args[1]) \o ", " \o ToJsString(args[2])


(***************************************************************************)
(* One node compiled again and again: get and getField of a node kept in   *)
(* dparams, against keys and options the caller picks.  hcall.pre keeps    *)
(* the node as it was built.                                               *)
(***************************************************************************)
MaxCompiles == 2     \* compilations of one node

CompileKeys == {"id", "user", "salt", "*"}

\* a get that strips the delimiters of a pattern, which the constructor does
NodeAfter_stripping(node) ==
  IF node.cls = "RegexCondition" /\ node.pattern.t = "str" /\ Len(node.pattern.s) >= 2
    THEN [node EXCEPT !.pattern = JStr(SubSeq(node.pattern.s, 2, Len(node.pattern.s) - 1))]
    ELSE node

\* the node after get, getField or eval ran on it: none of them, nor
\* escapeKey or handle_type, assigns a property of a node
NodeAfter(node) == node

InitCompile ==
  /\ q = SelectQuery(users, <<>>, "") /\ built = <<>> /\ nbuilt = 0
  /\ ncalls = 0 /\ raised = <<>> /\ hlimit = <<>>
  /\ ExecIdle /\ CallsIdle
  /\ dfilter \in {users, posts}
  /\ \E node \in PureNodes \cup RawNodes :
       /\ dparams = << <<"", node>> >>
       /\ hcall = [op |-> "node", idx |-> -1, args |-> <<>>, pre |-> node]
  /\ dopts = EmptyOptions /\ dout = <<>> /\ dpc = "node"

Compiled(key, options, text, pc) ==
  /\ ncalls < MaxCompiles
  /\ ncalls' = ncalls + 1
  /\ dout' = text
  /\ dparams' = << <<key, NodeAfter(dparams[1][2])>> >>
  /\ dopts' = options
  /\ dpc' = pc
  /\ UNCHANGED <<q, built, nbuilt, raised, hlimit, hcall, dfilter, execvars, callvars>>

CompileGet ==
  \E k \in CompileKeys, o \in DecodeOptions :
    Compiled(k, o, get(dparams[1][2], JStr(k), dfilter, o), "get")

CompileGetField ==
  \E o \in DecodeOptions :
    Compiled("", o, getField(dparams[1][2], dfilter, o), "getField")

NextCompile == CompileGet \/ CompileGetField

SpecCompile == InitCompile /\ [][NextCompile]_vars


(***************************************************************************)
(* The calls of one compilation, one at a time.  A call is [fn, node, key]:*)
(* get of a node against a key, or getField of a node; "throw" stands for  *)
(* the point where the code throws.  cstack holds the calls not yet made,  *)
(* in the order the code makes them.                                       *)
(***************************************************************************)
Frame(fn, node, key) == [fn |-> fn, node |-> node, key |-> key]
ThrowFrame == Frame("throw", Undef, Undef)

\* this.eval(value, key, ...): value.get(key, ...) when value is a node
EvalCalls(value, key) ==
  IF IsOperator(value) THEN <<Frame("get", value, key)>> ELSE <<>>

\* filter.escapeKey(key, ...): key.getField(...) when key is a node; a key
\* that is no string makes the identifier escaper throw
EscapeKeyCalls(key) ==
  IF IsOperator(key) THEN <<Frame("getField", key, Undef)>>
  ELSE IF key.t = "str" THEN <<>>
  ELSE <<ThrowFrame>>

\* the calls node.get(key, ...) makes, in the order it makes them
get_calls(node, key) ==
  CASE node.cls = "BinaryCondition" ->
         IF node.rval = Undef
           THEN EscapeKeyCalls(key) \o EvalCalls(node.value, key)
           ELSE EvalCalls(node.value, key) \o EvalCalls(node.rval, key)
    [] node.cls = "BinaryConditionFree" ->
         EvalCalls(node.lval, key) \o EvalCalls(node.rval, key)
    [] node.cls = "ArrayCondition" ->
         IF node.rval = Undef
           THEN EscapeKeyCalls(key) \o
                  (IF IsArray(node.lval)
                     THEN Flat([i \in DOMAIN node.lval.a |-> EvalCalls(node.lval.a[i], key)])
                     ELSE <<ThrowFrame>>)
           ELSE EvalCalls(node.lval, key) \o
                  (IF IsArray(node.rval)
                     THEN Flat([i \in DOMAIN node.rval.a |-> EvalCalls(node.rval.a[i], key)])
                     ELSE <<ThrowFrame>>)
    [] node.cls \in {"RegexCondition", "LikeCondition"} -> EscapeKeyCalls(key)
    [] node.cls = "UnaryFunction" ->
         IF node.value = Undef THEN EscapeKeyCalls(key) ELSE EvalCalls(node.value, key)
    [] node.cls \in {"BinaryFunction", "BinaryInfixOperator"} ->
         EvalCalls(node.value, key)
           \o EscapeKeyCalls(IF node.field = Undef THEN key ELSE node.field)
    [] node.cls = "FieldFunction" ->
         EscapeKeyCalls(IF node.field = Undef THEN key ELSE node.field)
    [] node.cls \in {"NullaryFunction", "RawFunction"} -> <<>>
    [] OTHER -> <<ThrowFrame>>

\* a getField that forwards to getField of the same node
getField_calls_self(node) == <<Frame("getField", node, Undef)>>

\* the calls node.getField(...) makes
getField_calls(node) ==
  CASE node.cls = "NullaryFunction" -> <<Frame("get", node, Undef)>>
    [] node.cls = "UnaryFunction" -> EscapeKeyCalls(node.value)
    [] node.cls \in {"BinaryFunction", "BinaryInfixOperator", "FieldFunction"} ->
         <<Frame("get", node, node.field)>>
    [] node.cls = "OrderFunction" -> EscapeKeyCalls(node.field)
    [] node.cls = "RawFunction" -> <<>>
    [] OTHER -> <<ThrowFrame>>

Callees(frame) ==
  IF frame.fn = "get" THEN get_calls(frame.node, frame.key)
  ELSE getField_calls(frame.node)

\* trees where a node in field position holds, in its value, nodes that
\* fall back on the context column
DeepNodes ==
  {op_mult(op_add(op_acos(JStr("id")), op_pow1(Num(2))), Num(5)),
   op_add(op_add(op_add(op_acos(JStr("id")), op_pow1(Num(2))), op_pow1(op_length(Undef))),
          op_pow1(Num(3))),
   op_desc(op_left(JStr("user"), Num(3)))}

CallTrees == PureNodes \cup RawNodes \cup DeepNodes

InitCalls ==
  /\ BuilderIdle /\ DecodeIdle /\ ExecIdle
  /\ croot \in CallTrees
  /\ cstack \in {<<Frame("get", croot, JStr("id"))>>, <<Frame("getField", croot, Undef)>>}
  /\ ccalls = 0

\* the next call is made: it is counted, and the calls it makes come before
\* the calls that were waiting
MakeCall ==
  /\ cstack # <<>> /\ Head(cstack).fn # "throw"
  /\ ccalls' = ccalls + 1
  /\ cstack' = Callees(Head(cstack)) \o Tail(cstack)
  /\ UNCHANGED croot /\ BuilderAndDecodeIdleRest

\* an exception ends the compilation
Unwind ==
  /\ cstack # <<>> /\ Head(cstack).fn = "throw"
  /\ cstack' = <<>>
  /\ UNCHANGED <<croot, ccalls>> /\ BuilderAndDecodeIdleRest

NextCalls == MakeCall \/ Unwind

SpecCalls == InitCalls /\ [][NextCalls]_vars

\* a call that was started goes on
SpecCallsFair == SpecCalls /\ WF_vars(MakeCall) /\ WF_vars(Unwind)


C2_InsertionOrder ==
  Decoded /\ ~Threw(dout) =>
    dout = DecodedClause(TermsInInsertionOrder(dfilter, dparams, DecodeOptionsUsed))

\* a map whose keys are ordinary names is decoded in insertion order
C2_NamedKeysInOrder ==
  /\ dpc = "where" /\ dfilter = users /\ dopts = EmptyOptions
  /\ dparams = << <<"user", MultiValue("user")>>, <<"id", MultiValue("id")>> >>
  /\ Str(dout) = " WHERE ~user~ LIKE '%bob%' AND ~id~ = 1"

C4_QualifiedIffJoined ==
  Built /\ q.kind = "select" =>
    IF Len(q.tables) > 1
      THEN /\ \A j \in DOMAIN built :
                IsColumn(built[j]) => j > 1 /\ built[j - 1].k = "qual"
           /\ \A i \in DOMAIN q.tables : \A p \in TablePieces(q, i) :
                QualifiedBy(p, Qualifier(q, i))
           /\ \A j \in DOMAIN built :
                built[j].k = "qual" => \E i \in DOMAIN q.tables : built[j] = Qualifier(q, i)
      ELSE "qual" \notin Kinds(built)

\* the users builder got its filter map with the constructor and its fields
\* in a call, and has the join with posts
C4_JoinedAfterConfigure ==
  /\ Built /\ q.kind = "select" /\ Len(q.tables) = 2
  /\ q.tables[1].where = id1 /\ q.tables[1].fields # <<>>
  /\ HasToken(built, Tok("qual", "~users~."))
  /\ HasToken(built, Tok("qual", "~p~."))

\* C5: the text of a select has its clauses in the order SELECT, FROM with
\* the joins, WHERE, GROUP BY, ORDER BY, LIMIT, whatever the order of the
\* calls: two calls for different clauses, made in either order, leave the
\* same builder and build the same text.
C5_ClauseOrderFixed ==
  /\ Built /\ q.kind = "select" => ClausesInOrder(built)
  /\ nbuilt = 0 /\ q.kind = "select" =>
       \A n1, n2 \in DOMAIN ClauseNames : n1 < n2 =>
         \A c1 \in ClauseCalls(ClauseNames[n1]), c2 \in ClauseCalls(ClauseNames[n2]) :
           CallsCommute(q, c1, c2)

\* a select built after two calls has WHERE, GROUP BY and ORDER BY
C5_AllClauses ==
  /\ Built /\ q.kind = "select" /\ ncalls = 2
  /\ KeywordAt(built, " WHERE ") # {}
  /\ KeywordAt(built, " ORDER BY ") # {}
  /\ KeywordAt(built, " GROUP BY ") # {}

\* C6: the WHERE clause of a select is the decoded filter maps of its tables
\* in table order, joined by AND; a table whose map decodes to the empty
\* string contributes nothing, and when every table does there is no WHERE.
C6_WhereOfTables ==
  Built /\ q.kind = "select" => WhereSection(built) = ExpectedWhere(q)

\* the primary table decodes to nothing, the joined table to one term
C6_EmptyTableSkipped ==
  /\ Built /\ q.kind = "select" /\ Len(q.tables) = 2
  /\ q.tables[1].where \in {<<>>, hiddenMap} /\ q.tables[2].where = thread1
  /\ Str(WhereSection(built)) = " WHERE ~p~.~threadId~ = 1"

\* C7: for a key with a special handler the decoder calls that handler and
\* adds no term of its own; the handler may add no term, one or several, and
\* the clause has one separator between neighbouring terms and none at
\* either end; when no term at all is added there is no WHERE or SET.
C7_SpecialHandlerTerms ==
  Decoded /\ ~Threw(dout) /\ (\E i \in DOMAIN dparams : IsSpecial(dfilter, dparams[i][1])) =>
    LET n == ExpectedTermCount(dfilter, dparams)
    IN  /\ \A i \in DOMAIN dparams :
             IsSpecial(dfilter, dparams[i][1]) =>
               decode_terms(dfilter, <<dparams[i]>>, DecodeOptionsUsed)
                 = special_call(dfilter, dfilter.special[dparams[i][1]],
                                dparams[i][1], dparams[i][2], DecodeOptionsUsed)
        /\ n = 0 => dout = <<>>
        /\ n > 0 =>
             /\ dout[1] = Tok("kw", IF dpc = "where" THEN " WHERE " ELSE " SET ")
             /\ Cardinality(Separators(dout)) = n - 1
             /\ \A i \in Separators(dout) :
                  i > 2 /\ i < Len(dout) /\ (i + 1) \notin Separators(dout)

\* a handler of two terms, a handler of none and an ordinary key
C7_HandlersOfAllSizes ==
  /\ dpc = "where" /\ dfilter = users /\ dopts = EmptyOptions
  /\ dparams = << <<"parent", MultiValue("parent")>>, <<"hidden", MultiValue("hidden")>>,
                  <<"id", MultiValue("id")>> >>
  /\ Str(dout) = " WHERE ~parentId~ = 'password' AND ~parentType~ = 'user' AND ~id~ = 1"

\* C8: a plain scalar value stands for $eq of it, a plain array for $in of
\* it and a regular expression for $regex of it: the map with the plain
\* value and the map with the operator decode to the same text (the keys
\* that process hands to a handler take neither form).
C8_PlainValuesAreSugar ==
  Decoded /\ ExplicitMap(dfilter, dparams) # dparams =>
    dout = IF dpc = "where"
             THEN filter_where(dfilter, ExplicitMap(dfilter, dparams), dopts)
             ELSE filter_set(dfilter, ExplicitMap(dfilter, dparams))

\* a plain array and a plain number in one map
C8_PlainArrayAndScalar ==
  /\ dpc = "where" /\ dfilter = posts /\ dopts = EmptyOptions
  /\ dparams = << <<"2", MultiValue("2")>>, <<"id", MultiValue("id")>> >>
  /\ Str(dout) = " WHERE ~2~ IN (1, 2) AND ~id~ = 1"

\* C9: a function, infix or field-reference node as the value of a key gives
\* the term key = node, the node compiled against that key; a conditional
\* node gives its own compilation; a raw node gives its string alone (for
\* the keys that process does not hand to a handler).
C9_OperatorValueTerm ==
  (/\ Decoded /\ Len(dparams) = 1
   /\ special_lookup(dfilter, dparams[1][1]) = ""
   /\ IsOperator(dparams[1][2]))
  => dout = DecodedClause(<<ExpectedTerm(dfilter, dparams[1][1], dparams[1][2],
                                         DecodeOptionsUsed)>>)

\* an infix node as the value set for a column
C9_InfixValue ==
  /\ dpc = "set" /\ dfilter = users
  /\ dparams = << <<"id", op_add1(Num(5))>> >>
  /\ Str(dout) = " SET ~id~ = ~id~ + 5"

\* C10: select, update and delete end their text with LIMIT n when the last
\* limit call had one argument and with LIMIT offset, n when it had two; a
\* builder that limit was never called on has no LIMIT.
C10_LastLimit ==
  Built /\ q.kind \in {"select", "update", "delete"} =>
    IF hlimit = <<>> THEN KeywordAt(built, " LIMIT ") = {}
    ELSE \E i \in DOMAIN built :
           /\ KeywordAt(built, " LIMIT ") = {i}
           /\ Str(SubSeq(built, i, Len(built))) = LimitText(hlimit)

\* an update whose limit was set by its second call
C10_LimitCalledTwice ==
  /\ Built /\ q.kind = "update" /\ ncalls = 2 /\ q.tables[1].where = <<>>
  /\ hlimit = <<Num(1), Num(2)>>
  /\ Str(built) = "UPDATE users SET ~post_count~ = 0 LIMIT 1, 2"

\* C11: where or limit called on an insert builder does not throw and leaves
\* the builder as it was, and the text built afterwards is the text the
\* builder gave without the call: INSERT INTO table SET ... with no WHERE and
\* no LIMIT.
C11_InsertIgnoresWhereLimit ==
  (/\ hcall.op \in {"where", "limit"}
   /\ hcall.pre.kind = "insert")
  => /\ q = hcall.pre
     /\ nbuilt = 0 => raised = <<>>
     /\ nbuilt >= 1 =>
          /\ raised = <<>>
          /\ built = InsertQuery_buildQuery(hcall.pre)
          /\ KeywordAt(built, " WHERE ") = {} /\ KeywordAt(built, " LIMIT ") = {}

\* where was called on an insert builder, and the caller got an exception
C11_WhereOnInsert ==
  /\ hcall.op = "where" /\ hcall.pre.kind = "insert" /\ hcall.args = id1
  /\ ncalls = 1 /\ nbuilt = 0
  /\ Str(raised) = "ReferenceError: db is not defined"

\* C12: the clone of a filter has the table name, the column type
\* declarations and the special handlers of the original, and decodes every
\* filter map, under every resolution options, to the text the original
\* decodes it to.
C12_CloneDecodesAlike ==
  dpc = "clone" =>
    /\ clone(dfilter).table = dfilter.table
    /\ clone(dfilter).columns = dfilter.columns
    /\ clone(dfilter).special = dfilter.special
    /\ dout = decode_filter(dfilter, dparams, " AND ", dopts)

\* the clone of users decodes a value for the integer column id as a string
C12_CloneLostColumnType ==
  /\ dpc = "clone" /\ dfilter = users /\ dopts = EmptyOptions
  /\ dparams = << <<"id", JStr("12abc")>> >>
  /\ Str(dout) = "~id~ = '12abc'"
  /\ Str(decode_filter(dfilter, dparams, " AND ", dopts)) = "~id~ = 12"

\* the queries request r submitted, as <<connection, position>>
Submitted(r) ==
  {e \in Requests \X (1..(2 * MaxExecs)) :
     e[2] \in DOMAIN conns[e[1]] /\ conns[e[1]][e[2]].by = r}

\* those of them the connection completed, with an error or without
Completed(r, failed) ==
  {e \in Submitted(r) : /\ conns[e[1]][e[2]].state = "done"
                        /\ (conns[e[1]][e[2]].err # 0) = failed}

\* the positions of the continuations of r that were called, by name
CalledBack(r, fn) == {i \in DOMAIN req[r].cbs : req[r].cbs[i].fn = fn}

C14_ExecSubmitsOnce ==
  /\ [](\A r \in Requests :
          /\ Cardinality(Submitted(r)) <= Len(req[r].sent)
          /\ Cardinality(CalledBack(r, "failure")) = Cardinality(Completed(r, TRUE))
          /\ Cardinality(CalledBack(r, "success")) = Cardinality(Completed(r, FALSE)))
  /\ \A r \in Requests : \A n \in 1..MaxExecs :
       (Len(req[r].sent) = n) ~> (Cardinality(Submitted(r)) >= n)

\* an exec call built its SQL and threw before anything was submitted
C14_ExecThrewBeforeSubmit ==
  /\ ~env.stream
  /\ req[1].sent = <<"SELECT * FROM users WHERE ~id~ = 1">>
  /\ Str(req[1].raised) = "TypeError"
  /\ conns[1] = << >> /\ req[1].hashing = << >>

OnPairs(b) == [i \in DOMAIN b.tables |-> b.tables[i].on]

\* C16: on() without a leading index appends its pairs to the join added
\* last, on(i, ...) appends them to table i (0 the primary, 1 the first
\* join); the ON-pairs of every other table stay as they were.
C16_OnTargetsOneTable ==
  (/\ hcall.op = "on" /\ nbuilt = 0 /\ raised = <<>>
   /\ hcall.pre.kind = "select"
   /\ hcall.idx < 0 => Len(hcall.pre.tables) >= 2)
  => /\ Len(q.tables) = Len(hcall.pre.tables)
     /\ \A i \in DOMAIN q.tables :
          OnPairs(q)[i] =
            IF (hcall.idx < 0 /\ i = Len(q.tables)) \/ (hcall.idx >= 0 /\ i = hcall.idx + 1)
              THEN OnPairs(hcall.pre)[i] \o hcall.args
              ELSE OnPairs(hcall.pre)[i]

\* on() without an index after two joins: the pairs are on the second join
C16_OnAfterTwoJoins ==
  /\ hcall.op = "on" /\ hcall.idx < 0 /\ raised = <<>> /\ nbuilt = 0
  /\ Len(q.tables) = 3
  /\ OnPairs(q) = << << >>, << >>, hcall.args >>
  /\ hcall.args # << >>

RECURSIVE JoinStr(_, _)
\* strings joined by a separator
JoinStr(strs, sep) ==
  IF strs = << >> THEN ""
  ELSE IF Len(strs) = 1 THEN strs[1]
  ELSE strs[1] \o sep \o JoinStr(Tail(strs), sep)

\* the tokens of a select text from FROM up to the next clause
FromSection(text) ==
  LET from == CHOOSE i \in KeywordAt(text, " FROM ") : TRUE
      ends == {j \in DOMAIN text :
                 j > from /\ text[j].k = "kw"
                 /\ text[j].s \in {" WHERE ", " GROUP BY ", " ORDER BY ", " LIMIT "}}
      last == IF ends = {} THEN Len(text)
              ELSE (CHOOSE j \in ends : \A m \in ends : j <= m) - 1
  IN  SubSeq(text, from + 1, last)

\* table [AS alias]
TableAs(t) ==
  t.filter.table \o (IF t.options.alias # "" THEN " AS " \o t.options.alias ELSE "")

\* the quoted alias of table k (0 the primary), its name when it has none
QuotedTable(b, k) ==
  "~" \o (IF b.tables[k + 1].options.alias # "" THEN b.tables[k + 1].options.alias
          ELSE b.tables[k + 1].filter.table) \o "~"

\* the FROM part the calls made on a select ask for
ExpectedFrom(b) ==
  JoinStr(
    [i \in DOMAIN b.tables |->
       LET t == b.tables[i]
       IN  IF i = 1 THEN TableAs(t)
           ELSE t.type \o " JOIN " \o TableAs(t)
                  \o (IF t.on = << >> THEN ""
                      ELSE " ON " \o
                        JoinStr([p \in DOMAIN t.on |->
                                   JoinStr([e \in DOMAIN t.on[p] |->
                                              QuotedTable(b, t.on[p][e][1]) \o ".~"
                                                \o t.on[p][e][2] \o "~"],
                                           " = ")],
                                " AND "))],
    " ")

FieldEntries(b) ==
  UNION {{IF IsArray(t.fields[i]) THEN t.fields[i].a[1] ELSE t.fields[i] :
            i \in DOMAIN t.fields}
           \cup {t.order[i] : i \in DOMAIN t.order}
           \cup {t.group[i] : i \in DOMAIN t.group} :
         t \in {b.tables[j] : j \in DOMAIN b.tables}}

\* the values of the filter maps of a builder
FilterValues(b) ==
  UNION {{t.where[i][2] : i \in DOMAIN t.where} :
         t \in {b.tables[j] : j \in DOMAIN b.tables}}

IsOrderFunction(v) == IsOperator(v) /\ v.cls = "OrderFunction"

\* C18: compiling a node where it is not supported raises the abstract-method
\* error of the method that is missing and produces no SQL: a conditional
\* node as a field, order or group entry raises the abstract getField
\* error, an order directive as a filter value the abstract get error.
C18_MisplacedNodeRaises ==
  [][\A r \in Requests :
       req'[r].nexec = req[r].nexec + 1 =>
         /\ (\E e \in FieldEntries(req'[r].b) : IsConditional(e)) =>
              /\ Str(req'[r].raised) = "Call to abstract method db-filters.Operator.getField()"
              /\ req'[r].sent = req[r].sent /\ conns' = conns
              /\ req'[r].hashing = req[r].hashing
         /\ (\E v \in FilterValues(req'[r].b) : IsOrderFunction(v)) =>
              /\ Str(req'[r].raised) = "Call to abstract method db-filters.Operator.get()"
              /\ req'[r].sent = req[r].sent /\ conns' = conns
              /\ req'[r].hashing = req[r].hashing]_vars

\* one request ran a select ordered by a $like node, the other a select
\* filtered by an $asc node
C18_BothAbstractErrors ==
  /\ req[1].nexec = 1 /\ req[2].nexec = 1
  /\ \E e \in FieldEntries(req[1].b) : e = op_like(JStr("a%"))
  /\ \E v \in FilterValues(req[2].b) : v = op_asc(JStr("id"))
  /\ req[1].raised = abstract_getField /\ req[2].raised = abstract_get
  /\ req[1].sent = << >> /\ req[2].sent = << >>

(***************************************************************************)
(* Integer columns.                                                        *)
(***************************************************************************)
\* the map has one key, a declared integer column without a handler, and a
\* plain scalar value
IntegerColumnDecoded ==
  /\ Decoded /\ Len(dparams) = 1
  /\ ~IsSpecial(dfilter, dparams[1][1])
  /\ ColumnType(dfilter, JStr(dparams[1][1])) = <<int_t>>
  /\ IsPlain(dparams[1][2]) /\ ~IsArray(dparams[1][2]) /\ ~IsRegExp(dparams[1][2])

\* the text is the numeral of an integer
IsIntegerText(s) ==
  LET d == IF Len(s) > 0 /\ SubSeq(s, 1, 1) = "-" THEN SubSeq(s, 2, Len(s)) ELSE s
  IN  Len(d) > 0 /\ LeadingDigits(d) = d

\* the string starts, after white space and a sign, with no digit
NoNumericParse(v) ==
  /\ v.t = "str"
  /\ LET s == TrimLeft(v.s)
         u == IF Len(s) > 0 /\ SubSeq(s, 1, 1) \in {"-", "+"} THEN SubSeq(s, 2, Len(s)) ELSE s
     IN  LeadingDigits(u) = ""

\* C19: for a column declared as integer, handle_type never throws and the
\* value it returns is an integer: the integer parsed from the value, and 0
\* whenever the value has no numeric parse.
C19_IntegerColumnGivesInteger ==
  IntegerColumnDecoded =>
    /\ ~Threw(dout) /\ Len(dout) > 0
    /\ dout[Len(dout)].k = "canon"
    /\ IsIntegerText(dout[Len(dout)].s)
    /\ NoNumericParse(dparams[1][2]) => dout[Len(dout)].s = "0"

\* a numeral of 310 digits in an integer column is emitted as Infinity
C19_InfinityEmitted ==
  /\ dpc = "where" /\ dfilter = users /\ dopts = EmptyOptions
  /\ dparams = << <<"id", JStr(Repeat("9", InfinityDigits))>> >>
  /\ Str(dout) = " WHERE ~id~ = Infinity"

\* a string without a numeral in an integer column is emitted as 0
C19_ZeroEmitted ==
  /\ dpc = "where" /\ dfilter = users /\ dopts = EmptyOptions
  /\ dparams = << <<"id", JStr("bob")>> >>
  /\ Str(dout) = " WHERE ~id~ = 0"

(***************************************************************************)
(* Nested infix operators.                                                 *)
(***************************************************************************)
IsInfix(v) == IsOperator(v) /\ v.cls = "BinaryInfixOperator"

\* an infix node with an infix node as its field or its value operand, or a
\* comparison with an infix node as its operand
NestedInfix(v) ==
  /\ IsOperator(v)
  /\ \/ IsInfix(v) /\ (IsInfix(v.field) \/ IsInfix(v.value))
     \/ v.cls = "BinaryCondition" /\ IsInfix(v.value)

\* the text has an infix expression between parentheses
ParenthesisedInfix(text) ==
  \E i, j \in DOMAIN text :
    /\ i < j /\ text[i] = Tok("kw", "(") /\ text[j] = Tok("kw", ")")
    /\ \E m \in (i + 1)..(j - 1) : text[m] \in {Tok("kw", " + "), Tok("kw", " * ")}

\* C20: an infix node nested in another infix node, as its field operand or
\* as its value operand, or nested as the operand of a comparison, is emitted
\* between parentheses.
C20_NestedInfixParenthesised ==
  (/\ Decoded /\ Len(dparams) = 1
   /\ ~IsSpecial(dfilter, dparams[1][1])
   /\ NestedInfix(dparams[1][2])
   /\ ~Threw(dout))
  => ParenthesisedInfix(dout)

\* $mult($add('salt', 1), 5): the sum that is the field operand has no
\* parentheses (its 1 is typed by the column salt, a string)
C20_FieldOperandBare ==
  /\ dpc = "where" /\ dfilter = users /\ dopts = EmptyOptions
  /\ dparams = << <<"id", op_mult(op_add(JStr("salt"), Num(1)), Num(5))>> >>
  /\ Str(dout) = " WHERE ~id~ = ~salt~ + '1' * 5"

\* $mult('salt', $add(5)): the sum that is the value operand has them
C20_ValueOperandGrouped ==
  /\ dpc = "where" /\ dfilter = users /\ dopts = EmptyOptions
  /\ dparams = << <<"id", op_mult(JStr("salt"), op_add1(Num(5)))>> >>
  /\ Str(dout) = " WHERE ~id~ = ~salt~ * (~id~ + 5)"

\* $eq($add(5)): the sum that is the operand of a comparison has none
C20_ComparisonOperandBare ==
  /\ dpc = "where" /\ dfilter = users /\ dopts = EmptyOptions
  /\ dparams = << <<"id", op_eq(op_add1(Num(5)))>> >>
  /\ Str(dout) = " WHERE ~id~ = ~id~ + 5"

(***************************************************************************)
(* Two-operand comparisons.                                                *)
(***************************************************************************)
\* $eq2, $gt2, ... and $eq(lval, rval), $gt(lval, rval), ...
IsTwoOperand(v) ==
  /\ IsOperator(v)
  /\ \/ v.cls = "BinaryConditionFree"
     \/ v.cls = "BinaryCondition" /\ v.rval # Undef

RECURSIVE NamesOwnColumns(_)
\* no node of the tree falls back on the context column: every function
\* node was built with its field and every condition with its lvalue
NamesOwnColumns(v) ==
  IF IsArray(v) THEN \A i \in DOMAIN v.a : NamesOwnColumns(v.a[i])
  ELSE IF ~IsOperator(v) THEN TRUE
  ELSE CASE v.cls = "BinaryCondition" ->
              v.rval # Undef /\ NamesOwnColumns(v.value) /\ NamesOwnColumns(v.rval)
         [] v.cls = "BinaryConditionFree" ->
              NamesOwnColumns(v.lval) /\ NamesOwnColumns(v.rval)
         [] v.cls = "ArrayCondition" ->
              v.rval # Undef /\ NamesOwnColumns(v.lval) /\ NamesOwnColumns(v.rval)
         [] v.cls = "UnaryFunction" -> v.value # Undef /\ NamesOwnColumns(v.value)
         [] v.cls \in {"BinaryFunction", "BinaryInfixOperator"} ->
              v.field # Undef /\ NamesOwnColumns(v.field) /\ NamesOwnColumns(v.value)
         [] v.cls \in {"FieldFunction", "OrderFunction"} ->
              v.field # Undef /\ NamesOwnColumns(v.field)
         [] v.cls \in {"NullaryFunction", "RawFunction"} -> TRUE
         [] OTHER -> FALSE

\* one key without a handler, with a two-operand comparison for its value,
\* was decoded
TwoOperandDecoded ==
  /\ Decoded /\ Len(dparams) = 1
  /\ special_lookup(dfilter, dparams[1][1]) = ""
  /\ IsTwoOperand(dparams[1][2])
  /\ ~Threw(dout)

\* the clause the same value gives under another key
ClauseUnderKey(key) ==
  DecodedClause(<<get(dparams[1][2], JStr(key), dfilter, DecodeOptionsUsed)>>)

TokensOf(text) == {text[i] : i \in DOMAIN text}

\* the tokens of a text that stand for values
ValueTokens(text) == {t \in TokensOf(text) : t.k \in {"lit", "canon", "verbatim"}}

RECURSIVE LeafTokens(_, _, _), FieldLeafTokens(_, _)
\* the value tokens expected of a tree compiled against a key: each scalar
\* operand typed by the key its enclosing node was compiled against
LeafTokens(filter, v, key) ==
  IF ~IsOperator(v) THEN TokensOf(handle_type(filter, key, v))
  ELSE CASE v.cls = "BinaryCondition" ->
              LeafTokens(filter, v.value, key)
                \cup (IF v.rval = Undef THEN {} ELSE LeafTokens(filter, v.rval, key))
         [] v.cls = "BinaryConditionFree" ->
              LeafTokens(filter, v.lval, key) \cup LeafTokens(filter, v.rval, key)
         [] v.cls = "ArrayCondition" ->
              LET list == IF v.rval = Undef THEN v.lval ELSE v.rval
              IN  UNION {LeafTokens(filter, list.a[i], key) : i \in DOMAIN list.a}
                    \cup (IF v.rval = Undef THEN {} ELSE LeafTokens(filter, v.lval, key))
         [] v.cls \in {"RegexCondition", "LikeCondition"} ->
              TokensOf(mysql_escape(v.pattern))
         [] v.cls = "UnaryFunction" ->
              IF v.value = Undef THEN {} ELSE LeafTokens(filter, v.value, key)
         [] v.cls \in {"BinaryFunction", "BinaryInfixOperator"} ->
              LeafTokens(filter, v.value, key)
                \cup (IF v.field = Undef THEN {} ELSE FieldLeafTokens(filter, v.field))
         [] v.cls = "FieldFunction" ->
              IF v.field = Undef THEN {} ELSE FieldLeafTokens(filter, v.field)
         [] OTHER -> {}

\* the same of an operand in field position: a string there is a column
\* name, and a binary function or infix node is compiled against its own field
FieldLeafTokens(filter, f) ==
  IF ~IsOperator(f) THEN {}
  ELSE CASE f.cls = "UnaryFunction" -> FieldLeafTokens(filter, f.value)
         [] f.cls \in {"BinaryFunction", "BinaryInfixOperator"} ->
              LeafTokens(filter, f.value, f.field) \cup FieldLeafTokens(filter, f.field)
         [] f.cls \in {"FieldFunction", "OrderFunction"} -> FieldLeafTokens(filter, f.field)
         [] OTHER -> {}

\* C22: a scalar operand at any depth of an operator tree is canonicalized
\* with the declared type of the key its enclosing node was compiled
\* against: the map key in a filter map, the node's own field for a binary
\* function or infix node in field position.
C22_ScalarTypedByContextKey ==
  (/\ Decoded /\ Len(dparams) = 1
   /\ special_lookup(dfilter, dparams[1][1]) = ""
   /\ IsOperator(dparams[1][2]) /\ ~HasRaw(dparams[1][2])
   /\ ~Threw(dout))
  => ValueTokens(dout) =
       LeafTokens(dfilter,
                  IF IsConditional(dparams[1][2]) THEN dparams[1][2]
                  ELSE op_eq(dparams[1][2]),
                  JStr(dparams[1][1]))

\* id: $mult($add('salt', 1), 1): the 1 of the product is typed by the map
\* key id, the 1 of the sum in field position by its own field salt
C22_BothContexts ==
  /\ dpc = "where" /\ dfilter = users /\ dopts = EmptyOptions
  /\ dparams = << <<"id", op_mult(op_add(JStr("salt"), Num(1)), Num(1))>> >>
  /\ Str(dout) = " WHERE ~id~ = ~salt~ + '1' * 1"

\* salt: $add('salt', 1): the number 1 under the varchar column salt is
\* emitted as the quoted string '1'
C22_NumberUnderSalt ==
  /\ dpc = "where" /\ dfilter = users /\ dopts = EmptyOptions
  /\ dparams = << <<"salt", op_add(JStr("salt"), Num(1))>> >>
  /\ Str(dout) = " WHERE ~salt~ = ~salt~ + '1'"

(***************************************************************************)
(* Array membership.                                                       *)
(***************************************************************************)
\* the membership node of a value: an $in/$not_in node, or the $in that a
\* plain array stands for
MembershipOf(v) == IF IsArray(v) THEN op_in(v) ELSE v

IsMembership(v) ==
  \/ IsArray(v)
  \/ /\ IsOperator(v) /\ v.cls = "ArrayCondition"
     /\ IsArray(IF v.rval = Undef THEN v.lval ELSE v.rval)

\* the text of an operand: a node compiled, a scalar canonicalized
OperandStr(filter, e, key, options) ==
  Str(IF IsOperator(e) THEN get(e, JStr(key), filter, options)
      ELSE handle_type(filter, JStr(key), e))

\* <lval> [NOT] IN (<elements joined by ', '>)
MembershipStr(filter, node, key, options) ==
  LET list == IF node.rval = Undef THEN node.lval.a ELSE node.rval.a
  IN  (IF node.rval = Undef THEN Str(escapeKey(filter, JStr(key), options))
       ELSE OperandStr(filter, node.lval, key, options))
        \o (IF node.invert THEN " NOT IN (" ELSE " IN (")
        \o JoinStr([i \in DOMAIN list |-> OperandStr(filter, list[i], key, options)], ", ")
        \o ")"

\* C23: an array-membership node compiles to <lval> IN (<elements>), or
\* <lval> NOT IN (<elements>) when negated, lval being the context column
\* when none was given, the elements in list order joined by ', '; an empty
\* list still gives the term, with nothing between the parentheses.
C23_MembershipText ==
  (/\ Decoded /\ Len(dparams) = 1
   /\ special_lookup(dfilter, dparams[1][1]) = ""
   /\ IsMembership(dparams[1][2]))
  => Str(dout) = (IF dpc = "where" THEN " WHERE " ELSE " SET ")
                   \o MembershipStr(dfilter, MembershipOf(dparams[1][2]),
                                    dparams[1][1], DecodeOptionsUsed)

\* $not_in([]) on id
C23_EmptyNotIn ==
  /\ dpc = "where" /\ dfilter = users /\ dopts = EmptyOptions
  /\ dparams = << <<"id", op_not_in(Arr(<<>>))>> >>
  /\ Str(dout) = " WHERE ~id~ NOT IN ()"

\* $in($pow(2), [1, 4]) on id
C23_ExplicitLval ==
  /\ dpc = "where" /\ dfilter = users /\ dopts = EmptyOptions
  /\ dparams = << <<"id", op_in2args(op_pow1(Num(2)), Arr(<<Num(1), Num(4)>>))>> >>
  /\ Str(dout) = " WHERE POW(~id~, 2) IN (1, 4)"

(***************************************************************************)
(* Unary functions.                                                        *)
(***************************************************************************)
IsUnary(v) == IsOperator(v) /\ v.cls = "UnaryFunction"

\* the resolved column of a name: the qualifier the options ask for, then
\* the quoted name, or the bare *
ResolvedColumn(filter, name, options) ==
  (IF ~options.useName THEN ""
   ELSE IF Len(options.alias) > 0 THEN BQ \o options.alias \o BQ \o "."
   ELSE BQ \o filter.table \o BQ \o ".")
    \o (IF name = "*" THEN "*" ELSE BQ \o name \o BQ)

\* key = , the start of the term of a function node under a key
TermStart(filter, key, options) ==
  (IF dpc = "where" THEN " WHERE " ELSE " SET ")
    \o ResolvedColumn(filter, key, options) \o " = "

\* C24: a unary function node without an argument compiles in predicate
\* position to NAME(<resolved context column>); with a scalar argument it
\* compiles in predicate position to NAME(<canonicalized value>) and in
\* field position to NAME(<resolved, quoted column>).
C24_UnaryArgument ==
  (/\ Decoded /\ Len(dparams) = 1
   /\ special_lookup(dfilter, dparams[1][1]) = "")
  => LET key   == dparams[1][1]
         v     == dparams[1][2]
         start == TermStart(dfilter, dparams[1][1], DecodeOptionsUsed)
     IN  /\ (IsUnary(v) /\ v.value = Undef)
              => Str(dout) = start \o v.fn \o "("
                               \o ResolvedColumn(dfilter, key, DecodeOptionsUsed) \o ")"
         /\ (IsUnary(v) /\ v.value # Undef /\ ~IsOperator(v.value))
              => Str(dout) = start \o v.fn \o "("
                               \o Str(handle_type(dfilter, JStr(key), v.value)) \o ")"
         /\ (IsInfix(v) /\ IsUnary(v.field) /\ ~IsOperator(v.value))
              => Str(dout) = start \o v.field.fn \o "("
                               \o ResolvedColumn(dfilter, v.field.value.s, DecodeOptionsUsed)
                               \o ") " \o v.fn \o " "
                               \o Str(handle_type(dfilter, JStr(key), v.value))

\* $mult($acos('id'), 5): in field position the argument is a column
C24_FieldPosition ==
  /\ dpc = "where" /\ dfilter = users /\ dopts = [useName |-> TRUE, alias |-> "u"]
  /\ dparams = << <<"id", op_mult(op_acos(JStr("id")), Num(5))>> >>
  /\ Str(dout) = " WHERE ~u~.~id~ = ACOS(~u~.~id~) * 5"

\* $md5('bob') and $length() in predicate position
C24_PredicatePosition ==
  /\ dpc = "where" /\ dfilter = users /\ dopts = EmptyOptions
  /\ \/ /\ dparams = << <<"user", op_md5(JStr("bob"))>> >>
        /\ Str(dout) = " WHERE ~user~ = MD5('bob')"
     \/ /\ dparams = << <<"salt", op_length(Undef)>> >>
        /\ Str(dout) = " WHERE ~salt~ = LENGTH(~salt~)"

(***************************************************************************)
(* The field list of a select.                                             *)
(***************************************************************************)
\* the tokens of a select text between SELECT and FROM
FieldsSection(text) ==
  SubSeq(text, 2, (CHOOSE i \in KeywordAt(text, " FROM ") : TRUE) - 1)

\* the segment of table k (0 the primary): its fields in the order added,
\* an array [expr, name] as expr AS name; its wildcard when it has none
ExpectedSegment(b, k) ==
  LET t == b.tables[k + 1]
  IN  IF t.fields = << >>
        THEN (IF Len(b.tables) > 1 THEN QuotedTable(b, k) \o "." ELSE "") \o "*"
        ELSE JoinStr([j \in DOMAIN t.fields |->
                        IF IsArray(t.fields[j])
                          THEN Str(escapeKey(t.filter, t.fields[j].a[1], t.options))
                                 \o " AS " \o t.fields[j].a[2].s
                          ELSE Str(escapeKey(t.filter, t.fields[j], t.options))],
                     ", ")

\* C25: the field list of a select has one segment per table in table
\* order: the table's explicit fields in the order added, [expr, name] as
\* expr AS name, or the table's wildcard when it has no fields, also when
\* other tables have explicit fields.
C25_FieldSegments ==
  Built /\ q.kind = "select" =>
    Str(FieldsSection(built)) =
      JoinStr([i \in DOMAIN q.tables |-> ExpectedSegment(q, i - 1)], ", ")

\* explicit fields on the primary table, none on the joined table
C25_WildcardBesideFields ==
  /\ Built /\ q.kind = "select" /\ Len(q.tables) = 2
  /\ q.tables[1].fields = <<Arr(<<op_count(JStr("id")), JStr("c")>>)>>
  /\ q.tables[2].fields = << >> /\ q.tables[2].options.alias = "p"
  /\ q.tables[1].options.alias = ""
  /\ Str(FieldsSection(built)) = "COUNT(~users~.~id~) AS c, ~p~.*"

(***************************************************************************)
(* Binary functions.                                                       *)
(***************************************************************************)
IsBinaryFunction(v) == IsOperator(v) /\ v.cls = "BinaryFunction"

\* a binary function node is the value of the one key decoded, which has no
\* handler
BinaryFunctionDecoded ==
  /\ Decoded /\ Len(dparams) = 1
  /\ special_lookup(dfilter, dparams[1][1]) = ""
  /\ IsBinaryFunction(dparams[1][2])
  /\ ~Threw(dout)

\* the field of the node: its explicit field, or the context column
FieldOperandStr(filter, node, key, options) ==
  IF node.field = Undef THEN ResolvedColumn(filter, key, options)
  ELSE Str(escapeKey(filter, node.field, options))

\* NAME(<field>, <value>) and NAME(<value>, <field>)
FieldFirstStr(filter, node, key, options) ==
  node.fn \o "(" \o FieldOperandStr(filter, node, key, options) \o ", "
    \o OperandStr(filter, node.value, key, options) \o ")"

ValueFirstStr(filter, node, key, options) ==
  node.fn \o "(" \o OperandStr(filter, node.value, key, options) \o ", "
    \o FieldOperandStr(filter, node, key, options) \o ")"

\* C26 as stated: a binary function node emits its arguments field first,
\* except ATAN2, which emits ATAN2(<value>, <field>).
C26_Atan2ValueFirst ==
  BinaryFunctionDecoded =>
    Str(dout) = TermStart(dfilter, dparams[1][1], DecodeOptionsUsed)
                  \o (IF dparams[1][2].fn = "ATAN2"
                        THEN ValueFirstStr(dfilter, dparams[1][2], dparams[1][1],
                                           DecodeOptionsUsed)
                        ELSE FieldFirstStr(dfilter, dparams[1][2], dparams[1][1],
                                           DecodeOptionsUsed))

\* C26: a binary function node of the library, ATAN2 included, emits its
\* field first and its value second, the field being the node's explicit
\* field or the context column when none was given.
C26_FieldFirst ==
  BinaryFunctionDecoded =>
    Str(dout) = TermStart(dfilter, dparams[1][1], DecodeOptionsUsed)
                  \o FieldFirstStr(dfilter, dparams[1][2], dparams[1][1], DecodeOptionsUsed)

\* $atan2('id', 5) under id
C26_Atan2Decoded ==
  /\ dpc = "where" /\ dfilter = users /\ dopts = EmptyOptions
  /\ dparams = << <<"id", op_atan2(JStr("id"), Num(5))>> >>
  /\ Str(dout) = " WHERE ~id~ = ATAN2(~id~, 5)"

RECURSIVE NodeCount(_), NodeCountAll(_)
\* the number of operator nodes of a tree, and of the trees of a list
NodeCount(v) ==
  IF IsArray(v) THEN NodeCountAll(v.a)
  ELSE IF ~IsOperator(v) THEN 0
  ELSE 1 + (IF "value" \in DOMAIN v THEN NodeCount(v.value) ELSE 0)
         + (IF "field" \in DOMAIN v THEN NodeCount(v.field) ELSE 0)
         + (IF "lval" \in DOMAIN v THEN NodeCount(v.lval) ELSE 0)
         + (IF "rval" \in DOMAIN v THEN NodeCount(v.rval) ELSE 0)

NodeCountAll(vs) ==
  IF vs = << >> THEN 0 ELSE NodeCount(Head(vs)) + NodeCountAll(Tail(vs))

RECURSIVE SubOperands(_)
\* the nodes strictly below a node
SubOperands(v) ==
  IF IsArray(v) THEN UNION {(IF IsOperator(v.a[i]) THEN {v.a[i]} ELSE {}) \cup SubOperands(v.a[i])
                              : i \in DOMAIN v.a}
  ELSE IF ~IsOperator(v) THEN {}
  ELSE UNION {(IF IsOperator(v[f]) THEN {v[f]} ELSE {}) \cup SubOperands(v[f])
                : f \in DOMAIN v \cap {"value", "field", "lval", "rval"}}

\* a call made by a call: on a node strictly below the caller's node, or get
\* of the same node made by its getField, or getField of the caller's key
Descends(caller, callee) ==
  \/ callee.fn = "throw"
  \/ callee.node \in SubOperands(caller.node)
  \/ caller.fn = "getField" /\ callee.fn = "get" /\ callee.node = caller.node
  \/ caller.fn = "get" /\ callee.fn = "getField" /\ callee.node = caller.key

\* C28 as stated: the number of get and getField calls of a compilation is
\* at most the number of nodes of the tree.
C28_CallsWithinNodes == ccalls <= NodeCount(croot)

\* C28: a compilation terminates, and every call a call makes is on a node
\* strictly below its own, or is get of the same node made by getField, or
\* is getField of the context key when that key is a node.
C28_CompileTerminates ==
  /\ <>(cstack = <<>>)
  /\ [][ccalls' = ccalls + 1 =>
          \A i \in 1..(Len(cstack') - Len(cstack) + 1) : Descends(Head(cstack), cstack'[i])]_vars

\* $mult($add('salt', 1), 1) compiled with three calls for its two nodes
C28_ThreeCallsTwoNodes ==
  /\ croot = op_mult(op_add(JStr("salt"), Num(1)), Num(1))
  /\ cstack = <<>> /\ ccalls = 3

(***************************************************************************)
(* GROUP BY and ORDER BY.                                                  *)
(***************************************************************************)
\* the text of the clause a keyword opens, the keyword included, up to the
\* next clause; the empty string when the text has no such clause
ClauseText(text, keyword, later) ==
  IF KeywordAt(text, keyword) = {} THEN ""
  ELSE LET from == CHOOSE i \in KeywordAt(text, keyword) : TRUE
           stop == {j \in DOMAIN text : j > from /\ text[j].k = "kw" /\ text[j].s \in later}
           to   == IF stop = {} THEN Len(text)
                   ELSE (CHOOSE j \in stop : \A m \in stop : j <= m) - 1
       IN  Str(SubSeq(text, from, to))

RECURSIVE OneByOne(_)
\* the entries the arguments of one order or group call add: an array gives
\* its elements, any other argument itself
OneByOne(args) ==
  IF args = << >> THEN << >>
  ELSE (IF Head(args).t = "arr" THEN [j \in DOMAIN Head(args).a |-> Head(args).a[j]]
        ELSE <<Head(args)>>) \o OneByOne(Tail(args))

\* the entries of table i of the builder for op ("order" or "group"): those
\* it had before the last call followed by those the call added, when the
\* last call was op on table i
EntriesOf(op, i) ==
  IF hcall.op = op /\ i = TableAt(hcall.pre, hcall.idx, 1)
    THEN hcall.pre.tables[i][op] \o OneByOne(hcall.args)
    ELSE q.tables[i][op]

\* one entry: the resolved column, followed by the direction of $asc/$desc
EntryStr(t, e) ==
  IF IsOperator(e) /\ e.cls = "OrderFunction"
    THEN ResolvedColumn(t.filter, e.field.s, t.options)
           \o (IF e = op_desc(e.field) THEN " DESC" ELSE " ASC")
  ELSE IF IsOperator(e) THEN Str(escapeKey(t.filter, e, t.options))
  ELSE ResolvedColumn(t.filter, e.s, t.options)

\* the clause: the tables that have entries in table order, the entries of
\* one table separated by ", ", the tables by ","
ExpectedClause(keyword, op) ==
  LET with == SelectSeq([i \in DOMAIN q.tables |-> i], LAMBDA i : EntriesOf(op, i) # << >>)
  IN  IF with = << >> THEN ""
      ELSE keyword \o JoinStr([n \in DOMAIN with |->
                                 JoinStr([j \in DOMAIN EntriesOf(op, with[n]) |->
                                            EntryStr(q.tables[with[n]], EntriesOf(op, with[n])[j])],
                                         ", ")],
                              ",")

\* C29: in GROUP BY and in ORDER BY of a built select the entries stand
\* grouped by table in table order and, within a table, in the order the
\* calls added them (the entries of the last order or group call after the
\* earlier ones), an array argument giving its elements one by one and an
\* $asc/$desc entry the resolved column followed by ASC/DESC; the clause is
\* absent when no table has an entry.
C29_GroupedByTable ==
  Built /\ q.kind = "select" =>
    /\ ClauseText(built, " ORDER BY ", {" LIMIT "}) = ExpectedClause(" ORDER BY ", "order")
    /\ ClauseText(built, " GROUP BY ", {" ORDER BY ", " LIMIT "})
         = ExpectedClause(" GROUP BY ", "group")

\* order(1, ['id', 'registered']) on the join, then order($desc('id'),
\* 'status') on the primary table
C29_PrimaryFirstAddedLast ==
  /\ Built /\ q.kind = "select" /\ Len(q.tables) = 2
  /\ hcall.op = "order" /\ hcall.idx = -1
  /\ hcall.pre.tables[2].order = <<JStr("id"), JStr("registered")>>
  /\ q.tables[2].options.alias = "p" /\ q.tables[1].options.alias = ""
  /\ ClauseText(built, " ORDER BY ", {" LIMIT "})
       = " ORDER BY ~users~.~id~ DESC, ~users~.~status~,~p~.~id~, ~p~.~registered~"

(***************************************************************************)
(* What a configuration call on a select changes.                          *)
(***************************************************************************)
\* the table the last call targets: the index given, else the primary
\* table, for on the table joined last
TargetOfCall ==
  TableAt(hcall.pre, hcall.idx, IF hcall.op = "on" THEN Len(hcall.pre.tables) ELSE 1)

\* the last call was made on a select and found its target table
CallOnTable(ops) ==
  /\ hcall.op \in ops /\ q.kind = "select"
  /\ TargetOfCall \in DOMAIN hcall.pre.tables

\* the entries the last call hands to the list it appends to
AddedByCall ==
  IF hcall.op \in {"order", "group"} THEN OneByOne(hcall.args) ELSE hcall.args

PerTable == {"where", "fields", "order", "group", "on"}

\* C30: on a select, fields, order, group and on leave the target table's
\* list as it was before the call followed by the entries of the call;
\* where leaves the target table's filter map equal to its argument and
\* limit leaves the limit equal to its arguments, whatever they were before;
\* the filter map and the field, order, group and on lists of every other
\* table are as before the call.
C30_AppendOrReplace ==
  /\ CallOnTable({"fields", "order", "group", "on"}) =>
       q.tables[TargetOfCall][hcall.op]
         = hcall.pre.tables[TargetOfCall][hcall.op] \o AddedByCall
  /\ CallOnTable({"where"}) => q.tables[TargetOfCall].where = hcall.args
  /\ hcall.op = "limit" /\ q.kind = "select" =>
       q.limit = (IF Len(hcall.args) = 2 THEN hcall.args ELSE <<hcall.args[1]>>)
  /\ CallOnTable(PerTable) =>
       /\ Len(q.tables) = Len(hcall.pre.tables)
       /\ \A j \in DOMAIN q.tables \ {TargetOfCall} : \A l \in PerTable :
            q.tables[j][l] = hcall.pre.tables[j][l]

\* where(1, {hidden : 1}) after where(1, {threadId : 1}) on the joined
\* table of a select that has {id : 1} on its primary table
C30_WhereReplaced ==
  /\ hcall.op = "where" /\ hcall.idx = 1 /\ q.kind = "select" /\ Len(q.tables) = 2
  /\ hcall.pre.tables[2].where = thread1
  /\ q.tables[2].where = hiddenMap
  /\ q.tables[1].where = id1

\* fields(['COUNT(id)', 'c']) after fields('id', 'user') on the primary table
C30_FieldsAppended ==
  /\ hcall.op = "fields" /\ hcall.idx = -1 /\ q.kind = "select"
  /\ hcall.pre.tables[1].fields = <<JStr("id"), JStr("user")>>
  /\ q.tables[1].fields
       = <<JStr("id"), JStr("user"), Arr(<<op_count(JStr("id")), JStr("c")>>)>>

====
